---- MODULE Spec2Model ----
(***************************************************************************)
(* Identity-based threshold encryption toolkit (rust-seal-toolkit).        *)
(*                                                                         *)
(* The demos of src/ (ThresholdDemo, BasicDemo, KeyManagementDemo,         *)
(* FileDemo) call a cryptographic core (crate `crypto`: create_full_id,    *)
(* ibe::extract, ibe::verify_user_secret_key, seal_encrypt, seal_decrypt)  *)
(* whose source is not part of src/.  The core is modelled from spec.md    *)
(* section 4; the callers are modelled from the Rust sources.              *)
(*                                                                         *)
(* Cryptography is modelled algebraically over a scaled-down prime field:  *)
(* group elements are kept as (base, exponent) pairs, the pairing          *)
(* multiplies exponents, the secret sharing is Shamir's over the field.    *)
(* Hash / KDF outputs that are pseudo-random in the implementation are     *)
(* kept symbolic, and a decryption under a wrong key yields Garbage.       *)
(***************************************************************************)
EXTENDS Integers, Sequences, FiniteSets, TLC

VARIABLES
    key_servers,   \* ThresholdDemo.key_servers: Seq of KeyServer
    package_id,    \* ThresholdDemo.package_id
    rng,           \* state of the CSPRNG (thread_rng)
    obj,           \* the EncryptedObject held by the caller (NoObject before a seal)
    sealed,        \* what the last seal_encrypt call was given and returned
    ret,           \* the last call of the core and its result
    files,         \* the files of the demo's directory: records [name, content]
    output,        \* what the demos have printed to standard output
    history,       \* the earlier calls and their results, oldest first
    threads,       \* the threads / demo instances running side by side
    program,       \* the command being run by main and where it stands
    stdin          \* the lines not yet read from standard input

vars == <<key_servers, package_id, rng, obj, sealed, ret, files, output, history,
          threads, program, stdin>>

-----------------------------------------------------------------------------
(* Bounds and domains *)

MaxServers == 3

\* Order of the scalar field (fastcrypto bls12381::Scalar), scaled down to a
\* small prime.  Bytes of payloads are taken from the same range.
P == 5

NonZero == 1..(P - 1)

Garbage == -1            \* the outcome of decrypting under a wrong key
None    == <<-1>>        \* Option::None of an optional byte string
NoTag   == -2            \* the absent tag of the key-only mode
NoObject == [mode |-> "NoObject"]

Packages   == {1, 2}                     \* ObjectID values used as package ids
HomePackage == CHOOSE p \in Packages : \A q \in Packages : p <= q
Seeds      == {0}                        \* initial states of the CSPRNG
TamperDeltas == {1, P - 1}               \* what is added to a modified byte
Identities == {<<1>>, <<2, 1>>}          \* identity byte strings

\* ObjectID of the i-th key server (ObjectID::random(): distinct ids)
ServerId(i) == 10 + i
\* an ObjectID that belongs to no key server of the demo
UnknownId == ServerId(0)

-----------------------------------------------------------------------------
(* Field arithmetic modulo P *)

Add(a, b) == (a + b) % P
Sub(a, b) == (a - b + P) % P
Mul(a, b) == (a * b) % P
Inv(a) == CHOOSE x \in NonZero : Mul(a, x) = 1

RECURSIVE SumSeq(_)
SumSeq(s) == IF s = <<>> THEN 0 ELSE Add(Head(s), SumSeq(Tail(s)))

-----------------------------------------------------------------------------
(* CSPRNG: a deterministic stream from an arbitrary seed *)

\* the j-th next scalar of the stream in state r (j = 0 is the first)
Draw(r, j) == ((r + j) % (P - 1)) + 1
\* the stream's state after n draws
Advance(r, n) == (r + n) % (P - 1)

-----------------------------------------------------------------------------
(* 4.1 Identity Binder *)

\* create_full_id: fixed-size package id followed by the identity bytes
create_full_id(pkg, id) == <<pkg>> \o id

-----------------------------------------------------------------------------
(* Pairing groups: G1 elements H(fid)^e, G2 elements g2^e, GT elements      *)
(* e(H(fid), g2)^e; the exponent of the result of a pairing is the product. *)

G2Generator == [g2 |-> 1]
HashToG1(fid) == [base |-> fid, exp |-> 1]
G1Mul(g, s) == [base |-> g.base, exp |-> Mul(g.exp, s)]
G2Mul(g, s) == [g2 |-> Mul(g.g2, s)]
Pairing(g1, g2) == [gtbase |-> g1.base, gtexp |-> Mul(g1.exp, g2.g2)]

-----------------------------------------------------------------------------
(* 4.2 Key Authority *)

\* public key share of a master key share
PublicKeyOf(msk) == G2Mul(G2Generator, msk)

\* generate_key_pair(rng): a fresh scalar and its public group element
generate_key_pair(r) == <<Draw(r, 0), PublicKeyOf(Draw(r, 0))>>

\* into_key_pair(master_key)
into_key_pair(msk) == <<msk, PublicKeyOf(msk)>>

-----------------------------------------------------------------------------
(* 4.3 Extractor, 4.4 Verifier *)

extract(msk, fid) == G1Mul(HashToG1(fid), msk)

\* verify_user_secret_key: e(usk, g2) = e(H(fid), pk)
verify_user_secret_key(usk, fid, pk) ==
    Pairing(usk, G2Generator) = Pairing(HashToG1(fid), pk)

-----------------------------------------------------------------------------
(* Secret sharing of the content key: a polynomial of degree t-1 over the   *)
(* field, one share per listed server, Lagrange interpolation at 0.         *)

\* the polynomial with coefficients coef (constant term first), at x
RECURSIVE PolyEval(_, _)
PolyEval(coef, x) ==
    IF coef = <<>> THEN 0
    ELSE Add(Head(coef), Mul(x, PolyEval(Tail(coef), x)))

\* coefficients of the sharing polynomial: the content key and t-1 fresh scalars
SharingPolynomial(key, t, r) == <<key>> \o [j \in 1..(t - 1) |-> Draw(r, j)]

RECURSIVE ProdOver(_, _)
ProdOver(S, xi) ==
    IF S = {} THEN 1
    ELSE LET xm == CHOOSE x \in S : TRUE
         IN Mul(Mul(xm, Inv(Sub(xm, xi))), ProdOver(S \ {xm}, xi))

RECURSIVE LagrangeSum(_, _)
LagrangeSum(rest, points) ==
    IF rest = {} THEN 0
    ELSE LET pt == CHOOSE q \in rest : TRUE
             xs == {q[1] : q \in points} \ {pt[1]}
         IN Add(Mul(pt[2], ProdOver(xs, pt[1])), LagrangeSum(rest \ {pt}, points))

\* interpolate at 0 from the points <<x, y>>; a garbage share spoils the result
Interpolate(points) ==
    IF \E q \in points : q[2] = Garbage THEN Garbage
    ELSE LagrangeSum(points, points)

-----------------------------------------------------------------------------
(* Encapsulation of one share under (public key share, full identity)       *)

GTPow(gt, s) == [gtbase |-> gt.gtbase, gtexp |-> Mul(gt.gtexp, s)]

\* Boneh-Franklin: the share masked with e(H(fid), pk)^r; nonce is g2^r
EncapsulateShare(share, pk, fid, r) ==
    [pad |-> GTPow(Pairing(HashToG1(fid), pk), r), val |-> share]

\* unmask with e(usk, nonce); a wrong pad gives pseudo-random bytes
DecapsulateShare(enc, usk, nonce) ==
    IF Pairing(usk, nonce) = enc.pad THEN enc.val ELSE Garbage

-----------------------------------------------------------------------------
(* Hybrid Codec *)

AadBytes(aad) == IF aad = None THEN <<>> ELSE aad

Weight(i) == ((i - 1) % (P - 1)) + 1

KeyStream(key, i) == Add(Mul(key, Weight(i)), 1)

StreamEncrypt(key, data) == [i \in 1..Len(data) |-> Add(data[i], KeyStream(key, i))]
StreamDecrypt(key, ct)   == [i \in 1..Len(ct) |-> Sub(ct[i], KeyStream(key, i))]

\* mutant: the tag does not cover the associated data
MacWithoutAad(key, ct, aad) ==
    IF key = Garbage THEN Garbage
    ELSE Add(key, SumSeq([i \in 1..Len(ct) |-> Mul(Weight(i), ct[i])]))

\* authentication tag over the ciphertext and the associated data
Mac(key, ct, aad) ==
    IF key = Garbage THEN Garbage
    ELSE LET bytes == ct \o AadBytes(aad)
         IN Add(key, SumSeq([i \in 1..Len(bytes) |-> Mul(Weight(i), bytes[i])]))

\* the independent MAC sub-key of the authenticated-stream mode
MacSubKey(key) == IF key = Garbage THEN Garbage ELSE Mul(key, 2)

TagOf(mode, key, ct, aad) ==
    IF mode = "Aes256Gcm" THEN Mac(key, ct, aad)
    ELSE IF mode = "Hmac256Ctr" THEN Mac(MacSubKey(key), ct, aad)
    ELSE NoTag

-----------------------------------------------------------------------------
(* 4.5 Threshold Sealer *)

Distinct(seq) == \A i, j \in 1..Len(seq) : i # j => seq[i] # seq[j]

\* the precondition of seal, "" when it holds
ConfigViolation(ids, pks, t) ==
    IF ~Distinct(ids) \/ Len(pks) # Len(ids) THEN "InvalidServerList"
    ELSE IF t < 1 \/ t > Len(ids) THEN "InvalidThreshold"
    ELSE ""

\* the number of scalars seal draws from the CSPRNG: key, t-1 coefficients, r
SealDraws(ids, pks, t) == IF ConfigViolation(ids, pks, t) = "" THEN t + 1 ELSE 0

\* seal_encrypt(package_id, id, key_servers, public_keys, threshold, input)
\* with the CSPRNG in state r; input is [mode, data, aad]
seal_encrypt(pkg, id, ids, pks, t, input, r) ==
    IF ConfigViolation(ids, pks, t) # ""
    THEN [ok |-> FALSE, error |-> "ConfigError",
          detail |-> ConfigViolation(ids, pks, t),
          object |-> NoObject, key |-> Garbage]
    ELSE LET fid   == create_full_id(pkg, id)
             key   == Draw(r, 0)
             coef  == SharingPolynomial(key, t, r)
             rand  == Draw(r, t)
             ct    == IF input.mode = "Plain" THEN <<>>
                      ELSE StreamEncrypt(key, input.data)
             aad   == IF input.mode = "Plain" THEN None ELSE input.aad
         IN [ok |-> TRUE, error |-> "", detail |-> "",
             object |->
               [package_id |-> pkg,
                id |-> id,
                threshold |-> t,
                services |-> ids,
                mode |-> input.mode,
                encrypted_shares |->
                    [i \in 1..Len(ids) |->
                        EncapsulateShare(PolyEval(coef, i), pks[i], fid, rand)],
                nonce |-> G2Mul(G2Generator, rand),
                ciphertext |-> ct,
                aad |-> aad,
                tag |-> TagOf(input.mode, key, ct, aad)],
             key |-> key]

-----------------------------------------------------------------------------
(* 4.6 Threshold Unsealer *)

\* position of a server id in the object's ordered server list
IndexOf(services, id) == CHOOSE i \in 1..Len(services) : services[i] = id

Listed(services) == {services[i] : i \in 1..Len(services)}

Failed(kind, server, phases) ==
    [status |-> "Failed", kind |-> kind, server |-> server,
     value |-> <<>>, phases |-> phases]

Success(value, phases) ==
    [status |-> "Success", kind |-> "", server |-> 0,
     value |-> value, phases |-> phases]

\* the offered servers whose share fails verification against its public key
FailingServers(object, usks, pks) ==
    LET fid == create_full_id(object.package_id, object.id)
    IN {id \in DOMAIN usks :
           ~verify_user_secret_key(usks[id], fid, pks[IndexOf(object.services, id)])}

\* the content key interpolated from the offered shares
ReconstructKey(object, usks) ==
    Interpolate({<<IndexOf(object.services, id),
                   DecapsulateShare(
                       object.encrypted_shares[IndexOf(object.services, id)],
                       usks[id], object.nonce)>> : id \in DOMAIN usks})

\* Hybrid Codec, opening side
OpenPayload(object, key, phases) ==
    IF object.mode = "Plain" THEN Success(<<key>>, phases)
    ELSE IF TagOf(object.mode, key, object.ciphertext, object.aad) # object.tag
         THEN Failed("AuthenticationFailure", 0, phases)
         ELSE Success(StreamDecrypt(key, object.ciphertext), phases)

Passed == [status |-> "Passed"]

\* mutant: the threshold count is checked before the server ids
ValidateCountFirst(object, usks, with_pks, pks) ==
    IF Cardinality(DOMAIN usks) < object.threshold
    THEN Failed("InsufficientShares", 0, <<"Validating">>)
    ELSE IF DOMAIN usks \ Listed(object.services) # {}
    THEN Failed("UnknownServer",
                CHOOSE id \in DOMAIN usks \ Listed(object.services) : TRUE,
                <<"Validating">>)
    ELSE IF with_pks /\ FailingServers(object, usks, pks) # {}
    THEN Failed("VerificationError",
                CHOOSE id \in FailingServers(object, usks, pks) : TRUE,
                <<"Validating">>)
    ELSE Passed

\* steps (a)-(c): unknown server ids, share verification, threshold count
Validate(object, usks, with_pks, pks) ==
    LET unknown == DOMAIN usks \ Listed(object.services)
        failing == FailingServers(object, usks, pks)
    IN IF unknown # {}
       THEN Failed("UnknownServer", CHOOSE id \in unknown : TRUE, <<"Validating">>)
       ELSE IF with_pks /\ failing # {}
       THEN Failed("VerificationError",
                   object.services[CHOOSE i \in 1..Len(object.services) :
                       /\ object.services[i] \in failing
                       /\ \A j \in 1..(i - 1) : object.services[j] \notin failing],
                   <<"Validating">>)
       ELSE IF Cardinality(DOMAIN usks) < object.threshold
       THEN Failed("InsufficientShares", 0, <<"Validating">>)
       ELSE Passed

\* seal_decrypt(encrypted_object, user_secret_keys, public_keys);
\* usks maps server ids to shares, with_pks says whether public keys are given
seal_decrypt(object, usks, with_pks, pks) ==
    IF Validate(object, usks, with_pks, pks) # Passed
    THEN Validate(object, usks, with_pks, pks)
    ELSE OpenPayload(object, ReconstructKey(object, usks),
                     <<"Validating", "Reconstructing", "Opening">>)

-----------------------------------------------------------------------------
(* Wire format of an EncryptedObject (bcs::to_bytes / bcs::from_bytes):     *)
(* PackageID | len(Identity) + Identity | threshold:u8 |                    *)
(* count(ServerIDs) + ids | ModeTag | count(shares) + shares | nonce |      *)
(* ciphertext | tag.  The ciphertext field of a payload mode carries the    *)
(* length-prefixed bytes and the optional associated data.                  *)

ModeTags == <<"Aes256Gcm", "Hmac256Ctr", "Plain">>

\* the tag of a mode on the wire, counted from 0
EncodeMode(mode) == (CHOOSE k \in 1..Len(ModeTags) : ModeTags[k] = mode) - 1
DecodeMode(byte) == ModeTags[byte + 1]

\* a length-prefixed byte string
EncodeBytes(bytes) == <<Len(bytes)>> \o bytes

\* Option<Vec<u8>>: 0 for None, 1 and the length-prefixed bytes for Some
EncodeOption(opt) == IF opt = None THEN <<0>> ELSE <<1>> \o EncodeBytes(opt)

\* one encapsulated share
EncodeShare(share) ==
    EncodeBytes(share.pad.gtbase) \o <<share.pad.gtexp, share.val>>

RECURSIVE EncodeShares(_)
EncodeShares(shares) ==
    IF shares = <<>> THEN <<>>
    ELSE EncodeShare(Head(shares)) \o EncodeShares(Tail(shares))

\* threshold:u8
EncodeU8(n) == <<n % 256>>

Serialize(object) ==
    <<object.package_id>>
      \o EncodeBytes(object.id)
      \o EncodeU8(object.threshold)
      \o EncodeBytes(object.services)
      \o <<EncodeMode(object.mode)>>
      \o <<Len(object.encrypted_shares)>> \o EncodeShares(object.encrypted_shares)
      \o <<object.nonce.g2>>
      \o (IF object.mode = "Plain" THEN <<>>
          ELSE EncodeBytes(object.ciphertext) \o EncodeOption(object.aad)
                 \o <<object.tag>>)

\* the length-prefixed byte string that starts at position pos
DecodeBytes(bytes, pos) == SubSeq(bytes, pos + 1, pos + bytes[pos])
\* the position after it
AfterBytes(bytes, pos) == pos + 1 + bytes[pos]

\* the share that starts at position pos, and the position after it
DecodeShare(bytes, pos) ==
    [pad |-> [gtbase |-> DecodeBytes(bytes, pos),
              gtexp  |-> bytes[AfterBytes(bytes, pos)]],
     val |-> bytes[AfterBytes(bytes, pos) + 1]]
AfterShare(bytes, pos) == AfterBytes(bytes, pos) + 2

\* count shares starting at position pos
RECURSIVE DecodeShares(_, _, _)
DecodeShares(bytes, pos, count) ==
    IF count = 0 THEN <<>>
    ELSE <<DecodeShare(bytes, pos)>>
           \o DecodeShares(bytes, AfterShare(bytes, pos), count - 1)

RECURSIVE AfterShares(_, _, _)
AfterShares(bytes, pos, count) ==
    IF count = 0 THEN pos
    ELSE AfterShares(bytes, AfterShare(bytes, pos), count - 1)

Deserialize(bytes) ==
    LET at_threshold == AfterBytes(bytes, 2)
        at_services  == at_threshold + 1
        at_mode      == AfterBytes(bytes, at_services)
        mode         == DecodeMode(bytes[at_mode])
        at_shares    == at_mode + 2
        at_nonce     == AfterShares(bytes, at_shares, bytes[at_mode + 1])
        at_ct        == at_nonce + 1
        at_aad       == AfterBytes(bytes, at_ct)
        at_tag       == IF bytes[at_aad] = 0 THEN at_aad + 1
                        ELSE AfterBytes(bytes, at_aad + 1)
    IN [package_id |-> bytes[1],
        id |-> DecodeBytes(bytes, 2),
        threshold |-> bytes[at_threshold],
        services |-> DecodeBytes(bytes, at_services),
        mode |-> mode,
        encrypted_shares |-> DecodeShares(bytes, at_shares, bytes[at_mode + 1]),
        nonce |-> [g2 |-> bytes[at_nonce]],
        ciphertext |-> IF mode = "Plain" THEN <<>> ELSE DecodeBytes(bytes, at_ct),
        aad |-> IF mode = "Plain" \/ bytes[at_aad] = 0 THEN None
                ELSE DecodeBytes(bytes, at_aad + 1),
        tag |-> IF mode = "Plain" THEN NoTag ELSE bytes[at_tag]]

-----------------------------------------------------------------------------
(* Byte encodings used by the demos when they print or store values *)

\* Scalar::to_byte_array: the bytes of a scalar
to_byte_array(scalar) == <<scalar>>

\* bcs::to_bytes of a G2 element (a public key)
G2Bytes(pk) == <<pk.g2>>

\* bcs::to_bytes of a G1 element (a user secret key)
G1Bytes(usk) == <<Len(usk.base)>> \o usk.base \o <<usk.exp>>

\* hex::encode: two hexadecimal digits per byte, high digit first
RECURSIVE hex_encode(_)
hex_encode(bytes) ==
    IF bytes = <<>> THEN <<>>
    ELSE <<Head(bytes) \div 16, Head(bytes) % 16>> \o hex_encode(Tail(bytes))

\* one printed line: what kind of value it shows, and its hexadecimal digits
Printed(kind, bytes) == [kind |-> kind, hex |-> hex_encode(bytes)]

-----------------------------------------------------------------------------
(* The callers: ThresholdDemo / BasicDemo / FileDemo *)

\* KeyServer::new: the i-th key server, its key pair drawn from the CSPRNG
KeyServerNew(i, r) ==
    [object_id  |-> ServerId(i),
     master_key |-> generate_key_pair(r)[1],
     public_key |-> generate_key_pair(r)[2]]

\* ThresholdDemo::new(num_servers), the CSPRNG starting in state seed
NewKeyServers(num_servers, seed) ==
    [i \in 1..num_servers |-> KeyServerNew(i, Advance(seed, i - 1))]

\* key_servers.iter().map(|s| s.object_id).collect()
ObjectIds(servers) == [i \in 1..Len(servers) |-> servers[i].object_id]

\* mutant: the public keys collected in reverse order
PublicKeysReversed(servers) ==
    [i \in 1..Len(servers) |-> servers[Len(servers) + 1 - i].public_key]

\* key_servers.iter().map(|s| s.public_key).collect()
PublicKeys(servers) == [i \in 1..Len(servers) |-> servers[i].public_key]

\* mutant: every share is extracted with the first server's master key
UserSecretKeysFirstKey(servers, selected, full_id) ==
    [id \in {servers[i].object_id : i \in selected} |->
        extract(servers[1].master_key, full_id)]

\* mutant: the shares of every key server, not of the selected ones
UserSecretKeysAllServers(servers, selected, full_id) ==
    [id \in {servers[i].object_id : i \in 1..Len(servers)} |->
        LET i == CHOOSE k \in 1..Len(servers) : servers[k].object_id = id
        IN extract(servers[i].master_key, full_id)]

\* mutant: the servers extract for the identity of the object at hand,
\* whatever identity they are asked for
UserSecretKeysOwnIdentity(servers, selected, full_id) ==
    [id \in {servers[i].object_id : i \in selected} |->
        LET i == CHOOSE k \in selected : servers[k].object_id = id
        IN extract(servers[i].master_key,
                   IF obj = NoObject THEN full_id
                   ELSE create_full_id(obj.package_id, obj.id))]

\* the share map built from the selected servers (indices into key_servers):
\* for server in selected { insert(server.object_id, extract(&server.master_key, &full_id)) }
UserSecretKeys(servers, selected, full_id) ==
    [id \in {servers[i].object_id : i \in selected} |->
        LET i == CHOOSE k \in selected : servers[k].object_id = id
        IN extract(servers[i].master_key, full_id)]

NoCall == [op |-> "none"]
NoProgram == [at |-> "none"]
NoSeal == [ok |-> FALSE]

Init ==
    \E n \in 0..MaxServers, seed \in Seeds :
        /\ key_servers = NewKeyServers(n, seed)
        /\ package_id = HomePackage
        /\ rng = Advance(seed, n)
        /\ obj = NoObject
        /\ sealed = NoSeal
        /\ ret = NoCall
        /\ files = {}
        /\ output = {}
        /\ history = <<>>
        /\ threads = <<>>
        /\ program = NoProgram
        /\ stdin = <<>>

\* the caller has looked at the result of the last call
Consume ==
    /\ ret.op # "none"
    /\ ret' = NoCall
    /\ output' = {}
    /\ UNCHANGED <<key_servers, package_id, rng, obj, sealed, files, history,
                 threads, program, stdin>>

\* the server lists a caller may hand to seal: the demo's own (every key
\* server, in order), one with a repeated id, one with an id and no public key
ServerLists ==
    {ObjectIds(key_servers)}
      \cup {ObjectIds(key_servers) \o <<UnknownId>>}
      \cup {[ObjectIds(key_servers) EXCEPT ![i] = ServerId(1)] :
                i \in 2..Len(key_servers)}

\* EncryptionInput::{Aes256Gcm {data, aad}, Hmac256Ctr {data, aad}, Plain}
SealInputs ==
    {[mode |-> "Aes256Gcm",  data |-> <<1>>,    aad |-> None],
     [mode |-> "Aes256Gcm",  data |-> <<2, 3>>, aad |-> <<4>>],
     [mode |-> "Hmac256Ctr", data |-> <<1>>,    aad |-> <<4>>],
     [mode |-> "Hmac256Ctr", data |-> <<2, 3>>, aad |-> None],
     [mode |-> "Plain",      data |-> <<>>,     aad |-> None]}

\* mutant: the result is unwrapped without looking at the error
HeldAfterSealUnchecked(res, held) == res.object

\* the binding `let (encrypted_object, _) = seal_encrypt(..)?`: on an error
\* the caller is left with what it held
HeldAfterSeal(res, held) == IF res.ok THEN res.object ELSE held

\* let (encrypted_object, key) = seal_encrypt(self.package_id, identity,
\*     object_ids, &public_keys, threshold, input)?
Seal(id, ids, t, input) ==
    /\ ret.op = "none"
    /\ LET res == seal_encrypt(package_id, id, ids, PublicKeys(key_servers),
                               t, input, rng)
       IN /\ ret' = [op |-> "seal", threshold |-> t, services |-> ids,
                     public_keys |-> PublicKeys(key_servers),
                     result |-> res, rng_before |-> rng, held_before |-> obj,
                     key_before |-> IF sealed.ok THEN sealed.key ELSE Garbage]
          /\ obj' = HeldAfterSeal(res, obj)
          /\ sealed' = IF res.ok
                        THEN [ok |-> TRUE, object |-> res.object, key |-> res.key,
                              data |-> input.data, mode |-> input.mode]
                        ELSE sealed
          /\ rng' = Advance(rng, SealDraws(ids, PublicKeys(key_servers), t))
    /\ UNCHANGED <<key_servers, package_id, files, output, history,
                 threads, program, stdin>>

\* the full identity of an encrypted object
FullIdOf(object) == create_full_id(object.package_id, object.id)

\* the full identities a caller may ask the servers to extract for: the
\* object's own, another identity of the package, the identity in another package
ExtractionIds(object) ==
    {FullIdOf(object)}
      \cup {create_full_id(object.package_id, i) : i \in Identities \ {object.id}}
      \cup {create_full_id(p, object.id) : p \in Packages \ {object.package_id}}

\* what may be wrong with one entry of the share map
Deviations(selected) ==
    {<<"none", 0>>, <<"unknown", 0>>}
      \cup {<<"wrong_server", i>> : i \in selected}

\* the share map handed to seal_decrypt: the shares of the selected servers
\* for full_id, with at most one deviation: an entry under the id of no key
\* server, or the share of one server replaced by one of the next server's key
ShareMap(servers, selected, full_id, dev) ==
    LET honest == UserSecretKeys(servers, selected, full_id)
    IN IF dev[1] = "unknown"
       THEN [id \in DOMAIN honest \cup {UnknownId} |->
                IF id = UnknownId THEN extract(1, full_id) ELSE honest[id]]
       ELSE IF dev[1] = "wrong_server"
       THEN [honest EXCEPT ![servers[dev[2]].object_id] =
                extract(servers[(dev[2] % Len(servers)) + 1].master_key, full_id)]
       ELSE honest

\* the call seal_decrypt(object, usks, public_keys) and its result; the
\* shares were asked of the selected servers for full_id
Decrypt(object, selected, full_id, dev, with_pks) ==
    /\ ret' = [op |-> "unseal", object |-> object,
               selected |-> selected, full_id |-> full_id, dev |-> dev,
               usks |-> ShareMap(key_servers, selected, full_id, dev),
               with_pks |-> with_pks,
               result |-> seal_decrypt(object,
                             ShareMap(key_servers, selected, full_id, dev),
                             with_pks, PublicKeys(key_servers))]
    /\ UNCHANGED <<key_servers, package_id, rng, obj, sealed, files, output, history,
                 threads, program, stdin>>

\* seal_decrypt on the object the caller holds, with the shares the selected
\* servers extract for full_id
Unseal(selected, full_id, dev, with_pks) ==
    /\ ret.op = "none"
    /\ obj # NoObject
    /\ dev[1] # "wrong_server" \/ full_id = FullIdOf(obj)
    /\ Decrypt(obj, selected, full_id, dev, with_pks)

\* mutant: one server fewer than the threshold
FirstServersButOne(threshold) == 1..(threshold - 1)

\* mutant: the first server alone
FirstServerOnly(threshold) == {1}

\* `for i in 0..(self.threshold as usize)`: the first `threshold` servers
FirstServers(threshold) == 1..threshold

\* BasicDemo::decrypt: seal_decrypt with the keys the first `threshold`
\* servers extract for the demo's identity, and the public keys
BasicDecrypt ==
    /\ ret.op = "none"
    /\ obj # NoObject
    /\ Decrypt(obj, FirstServers(obj.threshold), FullIdOf(obj), <<"none", 0>>, TRUE)

\* the stored object with one byte modified: a ciphertext byte, the tag, or
\* a byte of the associated data
TamperedObjects(object) ==
    {[object EXCEPT !.ciphertext[i] = Add(@, d)] :
        i \in 1..Len(object.ciphertext), d \in TamperDeltas}
      \cup {[object EXCEPT !.tag = Add(@, d)] : d \in TamperDeltas}
      \cup {[object EXCEPT !.aad[i] = Add(@, d)] :
                i \in 1..Len(AadBytes(object.aad)), d \in TamperDeltas}

\* seal_decrypt on a modified copy of the object, with the shares the selected
\* servers extract for the object's identity
UnsealTampered(object, selected) ==
    /\ ret.op = "none"
    /\ obj # NoObject
    /\ obj.mode # "Plain"
    /\ object \in TamperedObjects(obj)
    /\ Decrypt(object, selected, FullIdOf(obj), <<"none", 0>>, TRUE)

Thresholds == 0..(MaxServers + 1)

Next ==
    \/ Consume
    \/ BasicDecrypt
    \/ \E id \in Identities, ids \in ServerLists, t \in Thresholds,
          input \in SealInputs : Seal(id, ids, t, input)
    \/ \E selected \in SUBSET (1..Len(key_servers)), with_pks \in BOOLEAN :
          \E dev \in Deviations(selected) :
            \E full_id \in (IF obj = NoObject THEN {} ELSE ExtractionIds(obj)) :
                Unseal(selected, full_id, dev, with_pks)
    \/ \E selected \in SUBSET (1..Len(key_servers)) :
          \E object \in (IF obj.mode \in {"NoObject", "Plain"} THEN {}
                          ELSE TamperedObjects(obj)) :
            UnsealTampered(object, selected)

Spec == Init /\ [][Next]_vars

-----------------------------------------------------------------------------
(* KeyManagementDemo: key pairs, extraction and verification *)

MaxKeys == 2

\* `for index in 0..3`
DerivedKeys == 3

\* let seed = generate_seed(&mut thread_rng()): the seeds the demo may draw
DerivationSeeds == {1, 2}

\* derive_master_key(seed, index): a scalar fixed by (seed, index)
derive_master_key(seed, index) == ((seed + index) % (P - 1)) + 1

\* let (master_key, public_key) = generate_key_pair(&mut thread_rng())
GeneratedKeyPair(r) ==
    [master_key |-> generate_key_pair(r)[1],
     public_key |-> generate_key_pair(r)[2]]

\* mutant: the public key is that of the next index
DerivedKeyPairNextIndex(seed, index) ==
    [master_key |-> into_key_pair(derive_master_key(seed, index))[1],
     public_key |-> into_key_pair(derive_master_key(seed, index + 1))[2]]

\* mutant: every index derives the key of index 0
DerivedKeyPairIndexZero(seed, index) ==
    [master_key |-> into_key_pair(derive_master_key(seed, 0))[1],
     public_key |-> into_key_pair(derive_master_key(seed, 0))[2]]

\* let (master_key, public_key) = into_key_pair(derive_master_key(&seed, index))
DerivedKeyPair(seed, index) ==
    [master_key |-> into_key_pair(derive_master_key(seed, index))[1],
     public_key |-> into_key_pair(derive_master_key(seed, index))[2]]

\* mutant: the key is extracted for identities[0], whatever identity is asked
UserSecretKeyForFirstIdentity(master_key, pkg, identity) ==
    extract(master_key,
            create_full_id(pkg, CHOOSE i \in Identities :
                                   \A k \in Identities : Len(i) <= Len(k)))

\* mutant: the key is extracted under the demo's own package, whatever
\* package is asked for
UserSecretKeyInHomePackage(master_key, pkg, identity) ==
    extract(master_key, create_full_id(HomePackage, identity))

\* let full_id = create_full_id(&package_id, identity);
\* let user_secret_key = extract(&master_key, &full_id)
UserSecretKeyFor(master_key, pkg, identity) ==
    extract(master_key, create_full_id(pkg, identity))

\* println!("   Master Key: {}", hex::encode(master_key.to_byte_array()));
\* println!("   Public Key: {}", hex::encode(bcs::to_bytes(&public_key)?))
PrintedKeyPair(pair) ==
    {Printed("Master Key", to_byte_array(pair.master_key)),
     Printed("Public Key", G2Bytes(pair.public_key))}

KeyInit ==
    /\ key_servers = <<>>
    /\ package_id = HomePackage
    /\ rng \in 0..(P - 2)
    /\ obj = NoObject
    /\ sealed = NoSeal
    /\ ret = NoCall
    /\ files = {}
    /\ output = {}
    /\ history = <<>>
    /\ threads = <<>>
    /\ program = NoProgram
    /\ stdin = <<>>

GenerateKey ==
    /\ ret.op = "none"
    /\ Len(key_servers) < MaxKeys
    /\ key_servers' = Append(key_servers, GeneratedKeyPair(rng))
    /\ rng' = Advance(rng, 1)
    /\ output' = PrintedKeyPair(GeneratedKeyPair(rng))
    /\ UNCHANGED <<package_id, obj, sealed, ret, files, history,
                 threads, program, stdin>>

DeriveKey(seed, index) ==
    /\ ret.op = "none"
    /\ Len(key_servers) < MaxKeys
    /\ key_servers' = Append(key_servers, DerivedKeyPair(seed, index))
    /\ output' = PrintedKeyPair(DerivedKeyPair(seed, index))
    /\ history' = Append(history,
                         [op |-> "derive", seed |-> seed, index |-> index,
                          pair |-> DerivedKeyPair(seed, index)])
    /\ UNCHANGED <<package_id, rng, obj, sealed, ret, files,
                 threads, program, stdin>>

\* verify_user_secret_key(&user_secret_key, &full_id, &public_key), the key
\* extracted by key pair i for (pkg_e, id_e), checked for (pkg_v, id_v)
\* against the public key of key pair j
VerifyKey(i, j, pkg_e, id_e, pkg_v, id_v) ==
    /\ ret.op = "none"
    /\ ret' = [op |-> "verify", key |-> i, pub |-> j,
               extracted_for |-> <<pkg_e, id_e>>, verified_for |-> <<pkg_v, id_v>>,
               result |->
                   IF verify_user_secret_key(
                          UserSecretKeyFor(key_servers[i].master_key, pkg_e, id_e),
                          create_full_id(pkg_v, id_v),
                          key_servers[j].public_key)
                   THEN "Ok" ELSE "VerificationError"]
    /\ output' = {Printed("Secret Key",
                     G1Bytes(UserSecretKeyFor(key_servers[i].master_key, pkg_e, id_e)))}
    /\ UNCHANGED <<key_servers, package_id, rng, obj, sealed, files, history,
                 threads, program, stdin>>

\* demo_identity_namespacing: for (pkg_id) in package_ids {
\*     full_id = create_full_id(pkg_id, identity);
\*     user_secret_key = extract(&master_key, &full_id); println!(..) }
\* for two contexts a and b, with the master key of key pair i
Namespace(i, pkg_a, id_a, pkg_b, id_b) ==
    /\ ret.op = "none"
    /\ LET usk_a == UserSecretKeyFor(key_servers[i].master_key, pkg_a, id_a)
           usk_b == UserSecretKeyFor(key_servers[i].master_key, pkg_b, id_b)
       IN /\ ret' = [op |-> "namespace", key |-> i,
                     a |-> <<pkg_a, id_a>>, b |-> <<pkg_b, id_b>>,
                     full_id_a |-> create_full_id(pkg_a, id_a),
                     full_id_b |-> create_full_id(pkg_b, id_b),
                     usk_a |-> usk_a, usk_b |-> usk_b]
          /\ output' = {Printed("Full ID", create_full_id(pkg_a, id_a)),
                        Printed("Full ID", create_full_id(pkg_b, id_b)),
                        Printed("Secret Key", G1Bytes(usk_a)),
                        Printed("Secret Key", G1Bytes(usk_b))}
    /\ UNCHANGED <<key_servers, package_id, rng, obj, sealed, files, history,
                 threads, program, stdin>>

KeyNext ==
    \/ Consume
    \/ GenerateKey
    \/ \E seed \in DerivationSeeds, index \in 0..(DerivedKeys - 1) :
          DeriveKey(seed, index)
    \/ \E i, j \in 1..Len(key_servers), pkg_e, pkg_v \in Packages,
          id_e, id_v \in Identities : VerifyKey(i, j, pkg_e, id_e, pkg_v, id_v)
    \/ \E i \in 1..Len(key_servers), pkg_a, pkg_b \in Packages,
          id_a, id_b \in Identities : Namespace(i, pkg_a, id_a, pkg_b, id_b)

KeySpec == KeyInit /\ [][KeyNext]_vars

-----------------------------------------------------------------------------
(* FileDemo: files sealed to and unsealed from the demo's directory *)

\* `for i in 0..3`: the key servers of the file demo
FileServers == 3
\* `threshold: 2`
FileThreshold == 2

\* names and contents of the sample files
FileNames == {<<2, 1>>}
FileContents == {<<>>, <<1>>, <<2, 3>>}

\* a path of the demo's directory: file name and extension
SamplePath(name) == <<name, "">>
\* temp_dir.join(format!("{}.encrypted", filename))
EncryptedPath(name) == <<name, "encrypted">>
\* temp_dir.join(format!("{}.decrypted", filename))
DecryptedPath(name) == <<name, "decrypted">>
\* Path::with_extension
with_extension(path, extension) == <<path[1], extension>>
\* Path::file_name
file_name(path) == path[1]

\* format!("file:{}", filename).into_bytes()
FileIdentity(filename) == <<3>> \o filename

\* fs::write, fs::read
FsWrite(fs, path, content) ==
    {f \in fs : f.name # path} \cup {[name |-> path, content |-> content]}
FsExists(fs, path) == \E f \in fs : f.name = path
FsRead(fs, path) == (CHOOSE f \in fs : f.name = path).content

\* the bytes of the symmetric key ([u8; 32])
KeyBytes(key) == <<key>>

FileInit ==
    /\ \E seed \in Seeds :
          /\ key_servers = NewKeyServers(FileServers, seed)
          /\ rng = Advance(seed, FileServers)
    /\ package_id = HomePackage
    /\ obj = NoObject
    /\ sealed = NoSeal
    /\ ret = NoCall
    /\ files = {}
    /\ output = {}
    /\ history = <<>>
    /\ threads = <<>>
    /\ program = NoProgram
    /\ stdin = <<>>

\* create_sample_files: fs::write(&file_path, content)
WriteSample(name, content) ==
    /\ ret.op = "none"
    /\ files' = FsWrite(files, SamplePath(name), content)
    /\ UNCHANGED <<key_servers, package_id, rng, obj, sealed, ret, output, history,
                 threads, program, stdin>>

\* fs::write(&output_path.with_extension("key"), hex::encode(symmetric_key))
KeyFileSaved(fs, output_path, key) ==
    FsWrite(fs, with_extension(output_path, "key"), hex_encode(KeyBytes(key)))

\* FileDemo::encrypt_file(file_path, output_path)
EncryptFile(file_path, output_path) ==
    /\ ret.op = "none"
    /\ IF ~FsExists(files, file_path)
       THEN /\ ret' = [op |-> "encrypt_file", ok |-> FALSE, error |-> "Io",
                       path |-> output_path]
            /\ UNCHANGED <<rng, sealed, files>>
       ELSE LET res == seal_encrypt(package_id, FileIdentity(file_name(file_path)),
                                    ObjectIds(key_servers), PublicKeys(key_servers),
                                    FileThreshold,
                                    [mode |-> "Aes256Gcm",
                                     data |-> FsRead(files, file_path),
                                     aad |-> None],
                                    rng)
            IN /\ ret' = [op |-> "encrypt_file", ok |-> res.ok, error |-> res.error,
                          path |-> output_path]
               /\ rng' = Advance(rng, SealDraws(ObjectIds(key_servers),
                                                PublicKeys(key_servers), FileThreshold))
               /\ sealed' = IF res.ok
                             THEN [ok |-> TRUE, object |-> res.object, key |-> res.key,
                                   data |-> FsRead(files, file_path),
                                   mode |-> "Aes256Gcm"]
                             ELSE sealed
               /\ files' = IF res.ok
                            THEN KeyFileSaved(
                                     FsWrite(files, output_path, Serialize(res.object)),
                                     output_path, res.key)
                            ELSE files
    /\ UNCHANGED <<key_servers, package_id, obj, output, history,
                 threads, program, stdin>>

\* FileDemo::decrypt_file(encrypted_path, output_path)
DecryptFile(encrypted_path, output_path) ==
    /\ ret.op = "none"
    /\ IF ~FsExists(files, encrypted_path)
       THEN /\ ret' = [op |-> "decrypt_file", ok |-> FALSE, error |-> "Io",
                       path |-> output_path, encrypted |-> <<>>]
            /\ UNCHANGED files
       ELSE LET encrypted_data == FsRead(files, encrypted_path)
                encrypted_object == Deserialize(encrypted_data)
                full_id == create_full_id(encrypted_object.package_id,
                                          encrypted_object.id)
                res == seal_decrypt(encrypted_object,
                                    UserSecretKeys(key_servers,
                                                   FirstServers(FileThreshold), full_id),
                                    TRUE, PublicKeys(key_servers))
            IN /\ ret' = [op |-> "decrypt_file", ok |-> res.status = "Success",
                          error |-> res.kind, path |-> output_path,
                          encrypted |-> encrypted_data]
               /\ files' = IF res.status = "Success"
                            THEN FsWrite(files, output_path, res.value)
                            ELSE files
    /\ UNCHANGED <<key_servers, package_id, rng, obj, sealed, output, history,
                 threads, program, stdin>>

\* demo_file_metadata: seal under the demo's servers and threshold, then
\* unseal with the keys of the first `threshold` servers
FileNext ==
    \/ Consume
    \/ \E name \in FileNames, content \in FileContents : WriteSample(name, content)
    \/ \E name \in FileNames : EncryptFile(SamplePath(name), EncryptedPath(name))
    \/ \E name \in FileNames : DecryptFile(EncryptedPath(name), DecryptedPath(name))
    \/ \E name \in FileNames, input \in SealInputs :
          Seal(FileIdentity(name), ObjectIds(key_servers), FileThreshold, input)
    \/ BasicDecrypt

FileSpec == FileInit /\ [][FileNext]_vars

-----------------------------------------------------------------------------
(* The phases of one seal / unseal call:                                    *)
(* Validating -> Reconstructing -> Opening -> {Success | Failed(kind)}      *)

Pending == [status |-> "Pending"]

AllPhases == <<"Validating", "Reconstructing", "Opening">>

\* mutant: a call goes on to Reconstructing whatever the validation found
AfterValidatingUnchecked(passed) == "Reconstructing"

\* the phase that follows Validating
AfterValidating(passed) == IF passed THEN "Reconstructing" ELSE "Failed"

\* the payloads sealed by the calls that are followed phase by phase
CallInputs == {input \in SealInputs : input.aad = None /\ Len(input.data) <= 1}
\* and the identities they are sealed for
CallIdentities == {id \in Identities : Len(id) = 1}

CallInit ==
    \E n \in 1..MaxServers, seed \in Seeds :
        /\ key_servers = NewKeyServers(n, seed)
        /\ package_id = HomePackage
        /\ rng = Advance(seed, n)
        /\ obj = NoObject
        /\ sealed = NoSeal
        /\ ret = NoCall
        /\ files = {}
        /\ output = {}
        /\ history = <<>>
        /\ threads = <<>>
        /\ program = NoProgram
        /\ stdin = <<>>

\* seal_encrypt is entered
BeginSeal(id, ids, t, input) ==
    /\ ret.op = "none"
    /\ ret' = [op |-> "seal", phase |-> "Validating", trace |-> <<"Validating">>,
               id |-> id, services |-> ids, threshold |-> t, input |-> input,
               rng_at |-> rng, interpolated |-> FALSE, key |-> Garbage,
               result |-> Pending]
    /\ UNCHANGED <<key_servers, package_id, rng, obj, sealed, files, output, history,
                 threads, program, stdin>>

\* seal_decrypt is entered
BeginUnseal(selected, full_id, dev, with_pks) ==
    /\ ret.op = "none"
    /\ obj # NoObject
    /\ dev[1] # "wrong_server" \/ full_id = FullIdOf(obj)
    /\ ret' = [op |-> "unseal", phase |-> "Validating", trace |-> <<"Validating">>,
               object |-> obj, usks |-> ShareMap(key_servers, selected, full_id, dev),
               with_pks |-> with_pks, interpolated |-> FALSE, key |-> Garbage,
               result |-> Pending]
    /\ UNCHANGED <<key_servers, package_id, rng, obj, sealed, files, output, history,
                 threads, program, stdin>>

\* the result of the validation of the call in flight, Passed if it passes
Validation(call) ==
    IF call.op = "seal"
    THEN IF ConfigViolation(call.services, PublicKeys(key_servers), call.threshold) = ""
         THEN Passed
         ELSE seal_encrypt(package_id, call.id, call.services, PublicKeys(key_servers),
                           call.threshold, call.input, call.rng_at)
    ELSE Validate(call.object, call.usks, call.with_pks, PublicKeys(key_servers))

\* the preconditions of seal, steps (a)-(c) of unseal
ValidateStep ==
    /\ ret.op \in {"seal", "unseal"}
    /\ ret.phase = "Validating"
    /\ LET v == Validation(ret)
           next == AfterValidating(v = Passed)
       IN ret' = [ret EXCEPT !.phase = next,
                             !.trace = IF next = "Failed" THEN @ ELSE Append(@, next),
                             !.result = IF v = Passed THEN Pending ELSE v]
    /\ UNCHANGED <<key_servers, package_id, rng, obj, sealed, files, output, history,
                 threads, program, stdin>>

\* seal: the content key is sampled and shared; unseal: it is interpolated
ReconstructStep ==
    /\ ret.op \in {"seal", "unseal"}
    /\ ret.phase = "Reconstructing"
    /\ ret' = [ret EXCEPT !.phase = "Opening",
                          !.trace = Append(@, "Opening"),
                          !.interpolated = TRUE,
                          !.key = IF ret.op = "seal" THEN Draw(ret.rng_at, 0)
                                  ELSE ReconstructKey(ret.object, ret.usks)]
    /\ rng' = IF ret.op = "seal"
              THEN Advance(rng, SealDraws(ret.services, PublicKeys(key_servers),
                                          ret.threshold))
              ELSE rng
    /\ UNCHANGED <<key_servers, package_id, obj, sealed, files, output, history,
                 threads, program, stdin>>

\* the Hybrid Codec seals or opens the payload
OpenStep ==
    /\ ret.op \in {"seal", "unseal"}
    /\ ret.phase = "Opening"
    /\ LET res == IF ret.op = "seal"
                  THEN seal_encrypt(package_id, ret.id, ret.services,
                                    PublicKeys(key_servers), ret.threshold,
                                    ret.input, ret.rng_at)
                  ELSE OpenPayload(ret.object, ret.key, ret.trace)
       IN ret' = [ret EXCEPT !.phase = IF ret.op = "seal" THEN "Success"
                                       ELSE res.status,
                             !.result = res]
    /\ UNCHANGED <<key_servers, package_id, rng, obj, sealed, files, output, history,
                 threads, program, stdin>>

\* the call returns to its caller, which keeps the object of a successful seal
Return ==
    /\ ret.op \in {"seal", "unseal"}
    /\ ret.phase \in {"Success", "Failed"}
    /\ ret' = NoCall
    /\ obj' = IF ret.op = "seal" THEN HeldAfterSeal(ret.result, obj) ELSE obj
    /\ sealed' = IF ret.op = "seal" /\ ret.result.ok
                  THEN [ok |-> TRUE, object |-> ret.result.object,
                        key |-> ret.result.key, data |-> ret.input.data,
                        mode |-> ret.input.mode]
                  ELSE sealed
    /\ UNCHANGED <<key_servers, package_id, rng, files, output, history,
                 threads, program, stdin>>

CallNext ==
    \/ \E id \in CallIdentities, ids \in ServerLists, t \in Thresholds,
          input \in CallInputs : BeginSeal(id, ids, t, input)
    \/ \E selected \in SUBSET (1..Len(key_servers)), with_pks \in BOOLEAN :
          \E dev \in Deviations(selected) :
            \E full_id \in (IF obj = NoObject THEN {} ELSE ExtractionIds(obj)) :
                BeginUnseal(selected, full_id, dev, with_pks)
    \/ ValidateStep
    \/ ReconstructStep
    \/ OpenStep
    \/ Return

\* a call is a bounded routine that runs to completion once entered
CallSpec ==
    /\ CallInit
    /\ [][CallNext]_vars
    /\ WF_vars(ValidateStep)
    /\ WF_vars(ReconstructStep)
    /\ WF_vars(OpenStep)

-----------------------------------------------------------------------------
(* One sealed object unsealed again and again with different servers        *)
(* (demo_threshold_encryption, demo_server_rotation)                        *)

\* the number of unseal calls made on one object
MaxCalls == 2

\* mutant: unseal hands the object back with its server list reversed
ObjectAfterUnsealReordered(object, result) ==
    [object EXCEPT !.services =
        [i \in 1..Len(object.services) |->
            object.services[Len(object.services) + 1 - i]]]

\* seal_decrypt borrows the object (`&encrypted_object`): the caller holds
\* the same object after the call
ObjectAfterUnseal(object, result) == object

\* the demo seals one object under all its servers
FirstSeal(id, t, input) ==
    /\ obj = NoObject
    /\ Seal(id, ObjectIds(key_servers), t, input)

\* seal_decrypt on the held object with the keys of the servers of one
\* combination, and the public keys
TestDecryption(selected) ==
    /\ ret.op = "none"
    /\ obj # NoObject
    /\ Len(history) < MaxCalls
    /\ LET usks == UserSecretKeys(key_servers, selected, FullIdOf(obj))
           res  == seal_decrypt(obj, usks, TRUE, PublicKeys(key_servers))
       IN /\ ret' = [op |-> "unseal", object |-> obj, selected |-> selected,
                     full_id |-> FullIdOf(obj), dev |-> <<"none", 0>>,
                     usks |-> usks, with_pks |-> TRUE, result |-> res]
          /\ history' = Append(history,
                               [op |-> "unseal", object |-> obj,
                                selected |-> selected, result |-> res])
          /\ obj' = ObjectAfterUnseal(obj, res)
    /\ UNCHANGED <<key_servers, package_id, rng, sealed, files, output,
                 threads, program, stdin>>

ObjectNext ==
    \/ Consume
    \/ \E id \in CallIdentities, t \in 1..Len(key_servers), input \in CallInputs :
          FirstSeal(id, t, input)
    \/ \E selected \in SUBSET (1..Len(key_servers)) : TestDecryption(selected)

ObjectSpec == CallInit /\ [][ObjectNext]_vars

-----------------------------------------------------------------------------
(* Properties *)

\* the key server that owns a server id, 0 if none
ServerIndex(id) ==
    IF \E i \in 1..Len(key_servers) : key_servers[i].object_id = id
    THEN CHOOSE i \in 1..Len(key_servers) : key_servers[i].object_id = id
    ELSE 0

\* the offered share of server id is the one that server extracts for the
\* full identity of the object
ValidShare(object, id, usk) ==
    /\ id \in Listed(object.services)
    /\ ServerIndex(id) # 0
    /\ usk = G1Mul(HashToG1(<<object.package_id>> \o object.id),
                   key_servers[ServerIndex(id)].master_key)

ValidOffered(call) ==
    {id \in DOMAIN call.usks : ValidShare(call.object, id, call.usks[id])}

\* what the seal call was given to protect: the payload, or in the key-only
\* mode the content key
SealedValue == IF sealed.mode = "Plain" THEN <<sealed.key>> ELSE sealed.data

\* an unseal call on the object as sealed, with the shares the selected
\* servers extracted for the object's full identity
HonestUnseal ==
    /\ ret.op = "unseal"
    /\ ret.object = sealed.object
    /\ ret.dev[1] = "none"
    /\ ret.full_id = <<ret.object.package_id>> \o ret.object.id

\* C1: unseal with the shares extracted by any subset of at least t of the
\* object's servers for the object's full identity returns exactly what was
\* sealed.
ThresholdRoundTrip ==
    (HonestUnseal /\ Cardinality(ret.selected) >= ret.object.threshold)
        => /\ ret.result.status = "Success"
           /\ ret.result.value = SealedValue

\* C1 witness: 2-of-3, the shares of the second and third server
ThresholdRoundTripWitness ==
    /\ HonestUnseal
    /\ Len(key_servers) = 3
    /\ ret.object.threshold = 2
    /\ ret.selected = {2, 3}
    /\ ret.object.mode = "Aes256Gcm"
    /\ ret.result.status = "Success"
    /\ ret.result.value = <<2, 3>>

OutputGating ==
    (ret.op = "unseal" /\ ret.result.status = "Success")
        => /\ Cardinality(ValidOffered(ret)) >= ret.object.threshold
           /\ ret.result.value = SealedValue

\* C4: unseal with shares the object's servers extracted for another full
\* identity (another identity, or the same identity in another package) never
\* returns what was sealed; in the payload modes it fails.
IdentityScoping ==
    (/\ ret.op = "unseal"
     /\ ret.object = sealed.object
     /\ ret.dev[1] = "none"
     /\ ret.selected # {}
     /\ ret.full_id # <<ret.object.package_id>> \o ret.object.id)
        => /\ ret.result.value # SealedValue
           /\ ret.object.mode # "Plain" => ret.result.status = "Failed"

\* C4 witness: t shares for the same identity under another package
IdentityScopingWitness ==
    /\ ret.op = "unseal"
    /\ ret.dev[1] = "none"
    /\ Cardinality(ret.selected) >= ret.object.threshold
    /\ ret.full_id[1] # ret.object.package_id
    /\ ret.full_id = <<ret.full_id[1]>> \o ret.object.id
    /\ ret.object.mode = "Aes256Gcm"
    /\ ret.result.status = "Failed"

\* C5: a share map with a server id outside the object's server list fails
\* with UnknownServer in the validation phase, whatever else the map holds.
UnknownServerFirst ==
    (ret.op = "unseal" /\ ~(DOMAIN ret.usks \subseteq Listed(ret.object.services)))
        => /\ ret.result.status = "Failed"
           /\ ret.result.kind = "UnknownServer"
           /\ ret.result.server \in DOMAIN ret.usks \ Listed(ret.object.services)
           /\ ret.result.phases = <<"Validating">>

\* C5 witness: an unknown id beside t valid shares
UnknownServerFirstWitness ==
    /\ ret.op = "unseal"
    /\ UnknownId \in DOMAIN ret.usks
    /\ Cardinality(ValidOffered(ret)) >= ret.object.threshold
    /\ ret.result.kind = "UnknownServer"

\* C6: with public keys supplied, a share map of listed servers holding a
\* share that is not the one its server extracts for the object fails with
\* VerificationError naming such a server, before any interpolation.
ShareVerification ==
    (/\ ret.op = "unseal"
     /\ ret.with_pks
     /\ DOMAIN ret.usks \subseteq Listed(ret.object.services)
     /\ ValidOffered(ret) # DOMAIN ret.usks)
        => /\ ret.result.status = "Failed"
           /\ ret.result.kind = "VerificationError"
           /\ ret.result.server \in DOMAIN ret.usks \ ValidOffered(ret)
           /\ ret.result.phases = <<"Validating">>

\* C6 witness: one share of another server's key among more than t valid ones
ShareVerificationWitness ==
    /\ ret.op = "unseal"
    /\ ret.with_pks
    /\ ret.dev[1] = "wrong_server"
    /\ Cardinality(ValidOffered(ret)) >= ret.object.threshold
    /\ ret.result.kind = "VerificationError"
    /\ ret.result.server = key_servers[ret.dev[2]].object_id

\* C7: unseal of an object of a payload mode with one byte of the ciphertext,
\* the tag or the associated data changed, with the valid shares of at least
\* t servers, fails with AuthenticationFailure and returns no data.
TamperDetection ==
    (/\ ret.op = "unseal"
     /\ ret.object # sealed.object
     /\ Cardinality(ret.selected) >= ret.object.threshold)
        => ret.result = Failed("AuthenticationFailure", 0,
                               <<"Validating", "Reconstructing", "Opening">>)

\* C7 witness: the associated data of an authenticated-stream object changed
TamperDetectionWitness ==
    /\ ret.op = "unseal"
    /\ ret.object.mode = "Hmac256Ctr"
    /\ ret.object.aad # sealed.object.aad
    /\ Cardinality(ValidOffered(ret)) = ret.object.threshold
    /\ ret.result.kind = "AuthenticationFailure"

BadConfig(call) ==
    \/ ~Distinct(call.services)
    \/ Len(call.public_keys) # Len(call.services)
    \/ call.threshold = 0
    \/ call.threshold > Len(call.services)

\* C8: seal with a repeated server id, threshold 0, a threshold above the
\* number of servers, or lists of different length fails with ConfigError,
\* draws nothing from the CSPRNG and produces no object or key.
ConfigRejection ==
    (ret.op = "seal" /\ BadConfig(ret))
        => /\ ~ret.result.ok
           /\ ret.result.error = "ConfigError"
           /\ ret.result.object = NoObject
           /\ ret.result.key = Garbage
           /\ rng = ret.rng_before
           /\ obj = ret.held_before
           /\ ~Distinct(ret.services) => ret.result.detail = "InvalidServerList"
           /\ (Distinct(ret.services) /\ Len(ret.public_keys) = Len(ret.services))
                 => ret.result.detail = "InvalidThreshold"

\* C8 witness: a threshold above the number of servers, an object being held
ConfigRejectionWitness ==
    /\ ret.op = "seal"
    /\ Distinct(ret.services)
    /\ ret.threshold = Len(ret.services) + 1
    /\ ret.held_before # NoObject
    /\ ret.result.error = "ConfigError"

\* C9: a key extracted by a key pair for (package, identity) verifies for the
\* same (package, identity) against the public key of that key pair, for
\* generated and for derived key pairs.
BindingRoundTrip ==
    (/\ ret.op = "verify"
     /\ ret.key = ret.pub
     /\ ret.extracted_for = ret.verified_for)
        => ret.result = "Ok"

\* C9 witness: a successful verification
BindingRoundTripWitness ==
    /\ ret.op = "verify"
    /\ ret.key = ret.pub
    /\ ret.extracted_for = ret.verified_for
    /\ ret.result = "Ok"

\* C10: verification fails with VerificationError when the key was extracted
\* for another (package, identity) or by another master key than the one of
\* the public key; it succeeds only for the matching triple.
VerificationRejectsMismatch ==
    ret.op = "verify"
        => /\ ret.result \in {"Ok", "VerificationError"}
           /\ (\/ ret.extracted_for # ret.verified_for
               \/ key_servers[ret.key].master_key # key_servers[ret.pub].master_key)
                 => ret.result = "VerificationError"

\* C10 witness: same master key and package, another identity
VerificationRejectsMismatchWitness ==
    /\ ret.op = "verify"
    /\ ret.key = ret.pub
    /\ ret.extracted_for[1] = ret.verified_for[1]
    /\ ret.extracted_for[2] # ret.verified_for[2]
    /\ ret.result = "VerificationError"

\* C11: the full identity is a function of (package id, identity): equal
\* pairs give equal full identities and equal extracted keys, and two pairs
\* that differ in the package id or in the identity give different full
\* identities and, under one master key, different extracted keys.
FullIdentityNamespacing ==
    ret.op = "namespace"
        => /\ ret.a = ret.b => (ret.full_id_a = ret.full_id_b /\ ret.usk_a = ret.usk_b)
           /\ ret.a # ret.b => (ret.full_id_a # ret.full_id_b /\ ret.usk_a # ret.usk_b)

\* C11 witness: one identity under two packages, the keys differ
FullIdentityNamespacingWitness ==
    /\ ret.op = "namespace"
    /\ ret.a[1] # ret.b[1]
    /\ ret.a[2] = ret.b[2]
    /\ ret.full_id_a # ret.full_id_b
    /\ ret.usk_a # ret.usk_b

ModeRoundTrip ==
    (/\ HonestUnseal
     /\ ret.with_pks
     /\ ret.selected = FirstServers(ret.object.threshold))
        => /\ ret.result.status = "Success"
           /\ ret.object.mode \in {"Aes256Gcm", "Hmac256Ctr"}
                 => ret.result.value = sealed.data
           /\ ret.object.mode = "Plain" => ret.result.value = <<sealed.key>>

\* C13 witness: the key-only mode with 2 of 3 servers returns the sealed key
ModeRoundTripWitness ==
    /\ HonestUnseal
    /\ ret.with_pks
    /\ Len(key_servers) = 3
    /\ ret.selected = {1, 2}
    /\ ret.object.threshold = 2
    /\ ret.object.mode = "Plain"
    /\ ret.result.status = "Success"
    /\ ret.result.value = <<sealed.key>>

\* C14 (as claimed): a seal call in a payload mode (AEAD, authenticated
\* stream) hands no content key back to its caller; only the key-only mode
\* returns the key.
KeyReturnedOnlyInKeyOnlyMode ==
    (/\ ret.op = "seal"
     /\ ret.result.ok
     /\ ret.result.object.mode \in {"Aes256Gcm", "Hmac256Ctr"})
        => ret.result.key = Garbage

\* C15 (as claimed): two key-only seal calls with the same package, identity,
\* servers, public keys and threshold return the same content key.
KeyOnlyDeterminism ==
    (/\ ret.op = "seal"
     /\ ret.result.ok
     /\ ret.result.object.mode = "Plain"
     /\ ret.held_before # NoObject
     /\ ret.held_before.mode = "Plain"
     /\ ret.held_before.package_id = ret.result.object.package_id
     /\ ret.held_before.id = ret.result.object.id
     /\ ret.held_before.services = ret.result.object.services
     /\ ret.held_before.threshold = ret.result.object.threshold)
        => ret.result.key = ret.key_before

\* C16 (as claimed): no file of the directory that holds a serialized
\* encrypted object contains the content key that protects that object.
KeyNeverStoredAlongside ==
    sealed.ok
        => \A f \in files :
              f.content = Serialize(sealed.object)
                => ~\E g \in files : g.content = hex_encode(KeyBytes(sealed.key))

\* C18: the bytes of a sealed object deserialize to an object with the same
\* fields, unseal of the deserialized object with the keys of t servers
\* returns what was sealed, and decrypt_file of the file encrypt_file wrote
\* reproduces the bytes of the file that was encrypted.
WireRoundTrip ==
    /\ sealed.ok
          => /\ Deserialize(Serialize(sealed.object)) = sealed.object
             /\ seal_decrypt(Deserialize(Serialize(sealed.object)),
                             UserSecretKeys(key_servers,
                                            FirstServers(sealed.object.threshold),
                                            FullIdOf(sealed.object)),
                             TRUE, PublicKeys(key_servers))
                  = Success(SealedValue, <<"Validating", "Reconstructing", "Opening">>)
    /\ ret.op = "encrypt_file"
          => IF ret.ok
             THEN /\ FsExists(files, ret.path)
                  /\ Deserialize(FsRead(files, ret.path)) = sealed.object
             ELSE ret.error = "Io"
    /\ (ret.op = "decrypt_file" /\ sealed.ok /\ ret.encrypted = Serialize(sealed.object))
          => /\ ret.ok
             /\ FsRead(files, ret.path) = sealed.data

\* C18 witness: a file of two bytes encrypted, decrypted and reproduced
WireRoundTripWitness ==
    /\ ret.op = "decrypt_file"
    /\ ret.ok
    /\ sealed.ok
    /\ ret.encrypted = Serialize(sealed.object)
    /\ sealed.data = <<2, 3>>
    /\ FsRead(files, ret.path) = <<2, 3>>

\* C17 (as claimed): nothing that an operation prints or stores holds the
\* byte encoding of a master key share, generated or derived.
MasterKeyNeverSerialized ==
    /\ \A line \in output, i \in 1..Len(key_servers) :
          line.kind = "Master Key"
            => line.hex # hex_encode(to_byte_array(key_servers[i].master_key))
    /\ \A f \in files, i \in 1..Len(key_servers) :
          f.content # hex_encode(to_byte_array(key_servers[i].master_key))

InFlight == ret.op \in {"seal", "unseal"} /\ ret.phase \in {"Validating", "Reconstructing", "Opening"}

Terminal == ret.op \in {"seal", "unseal"} /\ ret.phase \in {"Success", "Failed"}

\* the position of a phase in the order of the state machine
PhaseRank(phase) ==
    IF phase = "Validating" THEN 1
    ELSE IF phase = "Reconstructing" THEN 2
    ELSE IF phase = "Opening" THEN 3
    ELSE 4

\* the phases a call has been through fit its state: a prefix of the three
\* phases ending in the current one; a failed validation (ConfigError,
\* UnknownServer, VerificationError, InsufficientShares) has seen Validating
\* only and no key was sampled or interpolated; Success and
\* AuthenticationFailure come after all three phases
PhasesFitState ==
    ret.op \in {"seal", "unseal"}
        => /\ ret.trace = SubSeq(AllPhases, 1, Len(ret.trace))
           /\ ret.phase \in {"Validating", "Reconstructing", "Opening", "Success", "Failed"}
           /\ InFlight => (ret.result = Pending /\ ret.phase = ret.trace[Len(ret.trace)])
           /\ ret.phase = "Success" => ret.trace = AllPhases
           /\ ret.phase = "Failed"
                 => IF ret.op = "unseal" /\ ret.result.kind = "AuthenticationFailure"
                    THEN ret.trace = AllPhases
                    ELSE ret.trace = <<"Validating">> /\ ~ret.interpolated
           /\ (ret.op = "unseal" /\ Terminal)
                 => ret.result = seal_decrypt(ret.object, ret.usks, ret.with_pks,
                                              PublicKeys(key_servers))

\* a step of a call moves it to a later phase; a terminal call only returns
PhasesMoveForward ==
    /\ (ret.op # "none" /\ ret'.op # "none")
          => /\ PhaseRank(ret'.phase) > PhaseRank(ret.phase)
             /\ ret'.op = ret.op
    /\ (ret.op = "none" /\ ret'.op # "none") => ret'.phase = "Validating"
    /\ Terminal => ret'.op = "none"

\* C19: a seal or unseal call goes forward through Validating,
\* Reconstructing and Opening and ends in Success or Failed(kind); it never
\* goes back, a failed validation reaches no later phase and interpolates
\* nothing, a finished call is not retried, and every call that was entered
\* reaches a terminal state.
CallStateMachine ==
    /\ []PhasesFitState
    /\ [][PhasesMoveForward]_vars
    /\ (InFlight ~> Terminal)

\* C19 witness: an unseal call that failed in Validating for want of shares
CallStateMachineWitness ==
    /\ ret.op = "unseal"
    /\ ret.phase = "Failed"
    /\ ret.result.kind = "InsufficientShares"
    /\ ret.trace = <<"Validating">>
    /\ ~ret.interpolated

\* C20: unseal, failed or not, leaves the object as it was sealed, server
\* order included; the result of a call depends on the object and the shares
\* of that call only: after any earlier calls (a failed sub-threshold one
\* among them) a call with the keys of at least t servers returns what was
\* sealed, and calls with the same servers end the same way.
ObjectImmutable ==
    /\ (obj # NoObject /\ sealed.ok) => obj = sealed.object
    /\ \A k \in 1..Len(history) :
          history[k].op = "unseal"
            => /\ history[k].object = sealed.object
               /\ history[k].object.services = ObjectIds(key_servers)
               /\ Cardinality(history[k].selected) >= sealed.object.threshold
                     => history[k].result
                          = Success(SealedValue, <<"Validating", "Reconstructing", "Opening">>)
               /\ Cardinality(history[k].selected) < sealed.object.threshold
                     => history[k].result.status = "Failed"
               /\ \A j \in 1..Len(history) :
                     history[j].selected = history[k].selected
                       => history[j].result = history[k].result

\* C20 witness: a sub-threshold failure, then a success on the same object
ObjectImmutableWitness ==
    /\ Len(history) = 2
    /\ history[1].op = "unseal"
    /\ history[1].result.kind = "InsufficientShares"
    /\ history[2].result.status = "Success"
    /\ history[2].result.value = <<1>>
    /\ history[2].selected = {2, 3}
    /\ obj = sealed.object

-----------------------------------------------------------------------------
(* Concurrent callers: the tests of main.rs, one thread each *)

Threads == {1, 2}

\* ThresholdDemo::new(3) / demo_threshold_encryption(2) of test_threshold_demo
TestServers == 3
TestThreshold == 2

\* mutant: one generator for the whole process
process_rng(thread) == 1

\* thread_rng(): the generator local to the calling thread
thread_rng(thread) == thread

\* the calls a thread makes on the core, on its own demo
ThreadCalls ==
    {[op |-> "generate"], [op |-> "derive", seed |-> 1, index |-> 0]}
      \cup {[op |-> "seal", id |-> id, input |-> input] :
                id \in CallIdentities, input \in CallInputs}
      \cup {[op |-> "unseal", selected |-> selected] :
                selected \in {{1}, {1, 2}, {2, 3}}}
      \cup {[op |-> "verify", server |-> i] : i \in {1, 2}}

\* how many values the call draws from the CSPRNG
CallDraws(call, servers) ==
    IF call.op = "generate" THEN 1
    ELSE IF call.op = "seal"
    THEN SealDraws(ObjectIds(servers), PublicKeys(servers), TestThreshold)
    ELSE 0

\* what the call returns and the object the caller holds after it, given
\* the state r of the generator when the call draws from it and the object
\* the caller holds
CallResult(call, r, held, servers) ==
    IF call.op = "generate"
    THEN [value |-> GeneratedKeyPair(r), held |-> held]
    ELSE IF call.op = "derive"
    THEN [value |-> DerivedKeyPair(call.seed, call.index), held |-> held]
    ELSE IF call.op = "seal"
    THEN LET res == seal_encrypt(HomePackage, call.id, ObjectIds(servers),
                                 PublicKeys(servers), TestThreshold,
                                 call.input, r)
         IN [value |-> res, held |-> HeldAfterSeal(res, held)]
    ELSE IF call.op = "unseal"
    THEN [value |-> IF held = NoObject THEN NoCall
                    ELSE seal_decrypt(held,
                            UserSecretKeys(servers, call.selected, FullIdOf(held)),
                            TRUE, PublicKeys(servers)),
          held |-> held]
    ELSE [value |-> [verified |->
                        verify_user_secret_key(
                            UserSecretKeyFor(servers[call.server].master_key,
                                             HomePackage, <<1>>),
                            create_full_id(HomePackage, <<1>>),
                            servers[1].public_key)],
          held |-> held]

\* the results of the calls made one after the other by a thread that runs
\* alone, its generator starting in state r
RECURSIVE RunAlone(_, _, _, _)
RunAlone(calls, r, held, servers) ==
    IF calls = <<>> THEN <<>>
    ELSE LET res == CallResult(Head(calls), r, held, servers)
         IN <<res.value>> \o
            RunAlone(Tail(calls), Advance(r, CallDraws(Head(calls), servers)),
                     res.held, servers)

ThreadInit ==
    \* the generator of the first thread starts from seed 0, the other's
    \* from the same seed or from another
    /\ \E seeds \in {s \in [Threads -> {0, 1}] : s[1] = 0} :
          /\ rng = [k \in Threads |-> Advance(seeds[k], TestServers)]
          /\ threads = [k \in Threads |->
                [key_servers |-> NewKeyServers(TestServers, seeds[k]),
                 start |-> Advance(seeds[k], TestServers),
                 held |-> NoObject, pending |-> NoCall,
                 calls |-> <<>>, results |-> <<>>, overlapped |-> FALSE]]
    /\ key_servers = <<>>
    /\ package_id = HomePackage
    /\ obj = NoObject
    /\ sealed = NoSeal
    /\ ret = NoCall
    /\ files = {}
    /\ output = {}
    /\ history = <<>>
    /\ program = NoProgram
    /\ stdin = <<>>

\* the calls made so far by every thread together
CallsMade ==
    LET Made(k) == Len(threads[k].calls)
                     + (IF threads[k].pending = NoCall THEN 0 ELSE 1)
    IN Made(1) + Made(2)

\* a thread enters a call: the call draws what it needs from the generator
\* of its thread
ThreadCall(k, call) ==
    /\ threads[k].pending = NoCall
    /\ CallsMade <= MaxCalls
    /\ call.op = "unseal" => threads[k].held # NoObject
    /\ threads' = [threads EXCEPT
          ![k].pending = [call |-> call, drawn |-> rng[thread_rng(k)]],
          ![k].overlapped = @ \/ (\E o \in Threads \ {k} :
                                      threads[o].pending # NoCall)]
    /\ rng' = [rng EXCEPT ![thread_rng(k)] =
                  Advance(@, CallDraws(call, threads[k].key_servers))]
    /\ UNCHANGED <<key_servers, package_id, obj, sealed, ret, files, output,
                   history, program, stdin>>

\* the call of a thread returns
ThreadReturn(k) ==
    /\ threads[k].pending # NoCall
    /\ LET call == threads[k].pending.call
           res == CallResult(call, threads[k].pending.drawn, threads[k].held,
                             threads[k].key_servers)
       IN threads' = [threads EXCEPT
              ![k].pending = NoCall,
              ![k].held = res.held,
              ![k].calls = Append(@, call),
              ![k].results = Append(@, res.value)]
    /\ UNCHANGED <<key_servers, package_id, rng, obj, sealed, ret, files,
                   output, history, program, stdin>>

ThreadNext ==
    \/ \E k \in Threads, call \in ThreadCalls : ThreadCall(k, call)
    \/ \E k \in Threads : ThreadReturn(k)

ThreadSpec == ThreadInit /\ [][ThreadNext]_vars

\* C21: statelessness under concurrency. Whatever the interleaving of the
\* calls of the threads (generation, derivation, extraction, verification,
\* seal, unseal), every call of a thread has returned what the same calls
\* return when the thread runs alone.
Statelessness ==
    \A k \in Threads :
        threads[k].results =
            RunAlone(threads[k].calls, threads[k].start, NoObject,
                     threads[k].key_servers)

\* both threads have sealed, one while a call of the other was in flight,
\* and the first has unsealed what it had sealed
StatelessnessWitness ==
    /\ threads[1].overlapped
    /\ Len(threads[1].calls) = 2
    /\ threads[1].calls[1].op = "seal"
    /\ threads[1].calls[2].op = "unseal"
    /\ threads[1].results[2].status = "Success"
    /\ Len(threads[2].calls) = 1
    /\ threads[2].calls[1].op = "seal"

-----------------------------------------------------------------------------
(* ThresholdDemo: the demos, each as the function of the key servers and   *)
(* of the state of the CSPRNG that its code computes                       *)

\* `self.key_servers.len() as u8` keeps the count modulo 2^8
U8 == 256

min(a, b) == IF a <= b THEN a ELSE b

\* self.identity, and the message of demo_threshold_encryption
DemoIdentity == <<1>>
DemoInput == [mode |-> "Aes256Gcm", data |-> <<1>>, aad |-> None]

\* the documents of demo_access_patterns: identity "document:<filename>", content
Documents ==
    <<[identity |-> <<2, 1>>, content |-> <<1>>],
      [identity |-> <<2, 2>>, content |-> <<2, 3>>],
      [identity |-> <<2, 3>>, content |-> <<4>>]>>

\* vec![vec![0, 1], vec![0, 2], vec![1, 2]], positions counted from 1
ServerCombinations == <<<<1, 2>>, <<1, 3>>, <<2, 3>>>>

\* what a demo returns ("Ok", "Err" with its error, or "panic" on an index
\* or slice out of range), the positions of key_servers it has reached for
\* (the end of a slice, an index counted from 1) and its CSPRNG draws
DemoRun(outcome, error, accesses, draws) ==
    [outcome |-> outcome, error |-> error, accesses |-> accesses,
     draws |-> draws]

\* test_decryption_with_servers(encrypted_object, public_keys, num_servers,
\* should_succeed): "panic" when the slice [..num_servers] is out of range
test_decryption_with_servers(servers, object, num_servers, should_succeed) ==
    IF num_servers > Len(servers) THEN "panic"
    ELSE LET result == seal_decrypt(object,
                          UserSecretKeys(servers, 1..num_servers,
                              create_full_id(HomePackage, DemoIdentity)),
                          TRUE, PublicKeys(servers))
         IN IF (result.status = "Success") = should_succeed THEN "Ok" ELSE "Err"

\* mutant: the test with one server more is made whatever the server count
ExtraServersAlways(n, threshold) ==
    <<[num_servers |-> threshold + 1, should_succeed |-> TRUE]>>

\* if self.key_servers.len() > threshold as usize
\*     { extra_servers = min(self.key_servers.len(), threshold as usize + 1) }
ExtraServers(n, threshold) ==
    IF n > threshold
    THEN <<[num_servers |-> min(n, threshold + 1), should_succeed |-> TRUE]>>
    ELSE <<>>

\* the tests run one after the other until one does not return Ok; reached
\* holds the num_servers of the tests entered so far
RECURSIVE RunTests(_, _, _, _, _)
RunTests(servers, object, tests, reached, draws) ==
    IF tests = <<>> THEN DemoRun("Ok", "", reached, draws)
    ELSE LET test == Head(tests)
             outcome == test_decryption_with_servers(servers, object,
                            test.num_servers, test.should_succeed)
             entered == Append(reached, test.num_servers)
         IN IF outcome = "panic" THEN DemoRun("panic", "index out of bounds", entered, draws)
            ELSE IF outcome = "Err"
            THEN DemoRun("Err", "unexpected decryption result", entered, draws)
            ELSE RunTests(servers, object, Tail(tests), entered, draws)

\* ThresholdDemo::demo_threshold_encryption(threshold), the CSPRNG in state
\* r: the seal, then the tests with threshold servers, with one more if
\* there is one, and with one fewer if threshold > 1
demo_threshold_encryption(servers, threshold, r) ==
    LET res == seal_encrypt(HomePackage, DemoIdentity, ObjectIds(servers),
                            PublicKeys(servers), threshold, DemoInput, r)
        draws == SealDraws(ObjectIds(servers), PublicKeys(servers), threshold)
        tests == <<[num_servers |-> threshold, should_succeed |-> TRUE]>>
                   \o ExtraServers(Len(servers), threshold)
                   \o (IF threshold > 1
                       THEN <<[num_servers |-> threshold - 1,
                               should_succeed |-> FALSE]>>
                       ELSE <<>>)
    IN IF ~res.ok THEN DemoRun("Err", res.detail, <<>>, draws)
       ELSE RunTests(servers, res.object, tests, <<>>, draws)

\* ThresholdDemo::demo_server_rotation: nothing to do with fewer than 3
\* servers; a failed decryption is printed and is no error
demo_server_rotation(servers, r) ==
    IF Len(servers) < 3 THEN DemoRun("Ok", "", <<>>, 0)
    ELSE LET res == seal_encrypt(HomePackage, DemoIdentity, ObjectIds(servers),
                                 PublicKeys(servers), 2, DemoInput, r)
             draws == SealDraws(ObjectIds(servers), PublicKeys(servers), 2)
         IN IF ~res.ok THEN DemoRun("Err", res.detail, <<>>, draws)
            ELSE LET indexed == ServerCombinations[1] \o ServerCombinations[2]
                                  \o ServerCombinations[3]
                 IN IF \E i \in 1..Len(indexed) : indexed[i] > Len(servers)
                    THEN DemoRun("panic", "index out of bounds", indexed, draws)
                    ELSE DemoRun("Ok", "", indexed, draws)

\* ThresholdDemo::demo_access_patterns from the document at position d on
\* (the call starts at 1, nothing indexed or drawn yet): seal with threshold
\* 2, extract from key_servers[0] and key_servers[1], seal_decrypt
RECURSIVE demo_access_patterns(_, _, _, _, _)
demo_access_patterns(servers, d, r, accesses, draws) ==
    IF d > Len(Documents) THEN DemoRun("Ok", "", accesses, draws)
    ELSE LET res == seal_encrypt(HomePackage, Documents[d].identity,
                                 ObjectIds(servers), PublicKeys(servers), 2,
                                 [mode |-> "Aes256Gcm",
                                  data |-> Documents[d].content, aad |-> None],
                                 Advance(r, draws))
             drawn == draws + SealDraws(ObjectIds(servers), PublicKeys(servers), 2)
         IN IF ~res.ok THEN DemoRun("Err", res.detail, accesses, drawn)
            ELSE IF Len(servers) < 1
            THEN DemoRun("panic", "index out of bounds", accesses \o <<1>>, drawn)
            ELSE IF Len(servers) < 2
            THEN DemoRun("panic", "index out of bounds", accesses \o <<1, 2>>, drawn)
            ELSE LET result == seal_decrypt(res.object,
                                  UserSecretKeys(servers, FirstServers(2),
                                      create_full_id(HomePackage,
                                                     Documents[d].identity)),
                                  TRUE, PublicKeys(servers))
                 IN IF result.status # "Success"
                    THEN DemoRun("Err", result.kind, accesses \o <<1, 2>>, drawn)
                    ELSE demo_access_patterns(servers, d + 1, r,
                                              accesses \o <<1, 2>>, drawn)

-----------------------------------------------------------------------------
(* main.rs: the commands, the interactive mode and the runs of ThresholdDemo *)

MaxLines == 2

\* the lines of standard input, as sequences of characters
InvalidUtf8 == <<"\\xFF">>
InputLines ==
    {<<"1", "\n">>, <<"2", "\n">>, <<"3", "\n">>, <<"4", "\n">>, <<"5", "\n">>,
     <<" ", "6", "\n">>, <<"0", "\n">>, <<"x", "\n">>, InvalidUtf8}

RECURSIVE InputsUpTo(_)
InputsUpTo(n) ==
    IF n = 0 THEN {<<>>}
    ELSE InputsUpTo(n - 1)
           \cup {Append(s, l) : s \in {i \in InputsUpTo(n - 1) : Len(i) = n - 1},
                                l \in InputLines}

\* io::stdin().read_line(&mut input): the next line; nothing is appended at
\* the end of the input; bytes that are no UTF-8 are an error
read_line(input) ==
    IF input = <<>> THEN [ok |-> TRUE, line |-> <<>>, rest |-> <<>>]
    ELSE IF Head(input) = InvalidUtf8
    THEN [ok |-> FALSE, line |-> <<>>, rest |-> Tail(input)]
    ELSE [ok |-> TRUE, line |-> Head(input), rest |-> Tail(input)]

RECURSIVE trim_start(_)
trim_start(s) ==
    IF s # <<>> /\ Head(s) \in {" ", "\n"} THEN trim_start(Tail(s)) ELSE s

RECURSIVE trim_end(_)
trim_end(s) ==
    IF s # <<>> /\ s[Len(s)] \in {" ", "\n"}
    THEN trim_end(SubSeq(s, 1, Len(s) - 1)) ELSE s

\* input.trim()
trim(s) == trim_end(trim_start(s))

Digits == <<"0", "1", "2", "3", "4", "5", "6", "7", "8", "9">>

\* the number written by the digits s, after the digits that gave acc
RECURSIVE ParseDigits(_, _)
ParseDigits(s, acc) ==
    IF s = <<>> THEN acc
    ELSE ParseDigits(Tail(s),
             acc * 10 + (CHOOSE d \in 1..Len(Digits) : Digits[d] = Head(s)) - 1)

\* servers_input.trim().parse().unwrap_or(3)
parse_or(s, default) ==
    IF s # <<>> /\ \A i \in 1..Len(s) : \E d \in 1..Len(Digits) : Digits[d] = s[i]
    THEN ParseDigits(s, 0) ELSE default

\* `servers: usize` as given on the command line
ServerCounts == (0..MaxServers) \cup {U8, U8 + 2}

NeedTwoServers == "Need at least 2 key servers for threshold encryption"

\* the CSPRNG draws of BasicDemo (new: 3 key pairs; run_all_demos: 3 seals
\* of threshold 2), KeyManagementDemo::run_all_demos (5 key pairs and seeds)
\* and FileDemo (new: 3 key pairs; run_all_demos: 9 seals of threshold 2)
DemoDraws(demo) ==
    IF demo = "basic" THEN 3 + 3 * 3
    ELSE IF demo = "keys" THEN 1 + 1 + 1 + 2
    ELSE 3 + 9 * 3

\* the commands of the Cli, and a direct use of ThresholdDemo as in the tests
Commands ==
    {[name |-> "Threshold", servers |-> n, basic_only |-> b,
      rotation_only |-> r, access_only |-> a, threshold |-> 2] :
        n \in ServerCounts, b \in BOOLEAN, r \in BOOLEAN, a \in BOOLEAN}
      \cup {[name |-> "All", servers |-> n, basic_only |-> FALSE,
             rotation_only |-> FALSE, access_only |-> FALSE, threshold |-> 2] :
                n \in ServerCounts}
      \cup {[name |-> "Interactive", servers |-> 3, basic_only |-> FALSE,
             rotation_only |-> FALSE, access_only |-> FALSE, threshold |-> 2]}
      \cup {[name |-> "Test", servers |-> n, basic_only |-> TRUE,
             rotation_only |-> FALSE, access_only |-> FALSE, threshold |-> t] :
                n \in 0..MaxServers,
                t \in (0..(MaxServers + 1)) \cup {U8 - 1}}
      \cup {[name |-> "Test", servers |-> n, basic_only |-> FALSE,
             rotation_only |-> r, access_only |-> a, threshold |-> 2] :
                n \in 0..MaxServers, r \in BOOLEAN, a \in BOOLEAN}

MainInit ==
    /\ \E command \in Commands :
          /\ program = [at |-> "main", command |-> command,
                        servers |-> command.servers, only |-> "none",
                        threshold |-> command.threshold,
                        entry |-> "none", built |-> FALSE,
                        choice |-> <<>>, ran |-> "none",
                        result |-> "running", error |-> ""]
          /\ stdin \in (IF command.name = "Interactive"
                        THEN InputsUpTo(MaxLines) ELSE {<<>>})
    /\ \E seed \in Seeds : rng = seed
    /\ key_servers = <<>>
    /\ package_id = HomePackage
    /\ obj = NoObject
    /\ sealed = NoSeal
    /\ ret = NoCall
    /\ files = {}
    /\ output = {}
    /\ history = <<>>
    /\ threads = <<>>

\* the function returns Err (`?`, bail!) or the thread panics: main ends
Exit(p, result, error) ==
    [p EXCEPT !.at = "exit", !.result = result, !.error = error]

\* run_threshold_demo / run_file_demo / run_all_demos has returned Ok(()):
\* back to the loop of the interactive mode, or to the end of main
Returned(p) ==
    IF p.command.name = "Interactive" THEN [p EXCEPT !.at = "menu"]
    ELSE Exit(p, "Ok", "")

\* a method of ThresholdDemo has returned to the function that built the demo
AfterDemo(p, run) ==
    IF run.outcome # "Ok" THEN Exit(p, run.outcome, run.error)
    ELSE IF p.entry = "run_all_demos" THEN [p EXCEPT !.at = "file_demo"]
    ELSE Returned(p)

\* if basic_only {..} else if rotation_only {..} else if access_only {..} else {..}
Only(basic_only, rotation_only, access_only) ==
    IF basic_only THEN "ThresholdDemo::demo_threshold_encryption"
    ELSE IF rotation_only THEN "ThresholdDemo::demo_server_rotation"
    ELSE IF access_only THEN "ThresholdDemo::demo_access_patterns"
    ELSE "ThresholdDemo::run_all_demos"

\* let demo = ThresholdDemo::new(num_servers), the CSPRNG in state r; then
\* the method chosen by the flags (the loop of run_all_demos starts at 2)
Build(p, num_servers, entry, r) ==
    /\ key_servers' = NewKeyServers(num_servers, r)
    /\ rng' = Advance(r, num_servers)
    /\ history' = <<>>
    /\ program' = [p EXCEPT
          !.at = p.only, !.built = TRUE, !.entry = entry,
          !.servers = num_servers,
          !.threshold = IF p.only = "ThresholdDemo::run_all_demos" THEN 2 ELSE @]

\* the entry of one call of a method in the log of the demo
Logged(method, threshold, run) ==
    [method |-> method, threshold |-> threshold, outcome |-> run.outcome,
     error |-> run.error, accesses |-> run.accesses]

\* match &cli.command { .. }
Main ==
    /\ program.at = "main"
    /\ program.command.name \in {"Threshold", "All", "Interactive"}
    /\ program' = [program EXCEPT
          !.at = IF program.command.name = "Threshold" THEN "run_threshold_demo"
                 ELSE IF program.command.name = "All" THEN "run_all_demos"
                 ELSE "menu",
          !.only = Only(program.command.basic_only,
                        program.command.rotation_only,
                        program.command.access_only)]
    /\ UNCHANGED <<key_servers, package_id, rng, obj, sealed, ret, files,
                   output, history, threads, stdin>>

\* the test of ThresholdDemo: let demo = ThresholdDemo::new(n); demo.<method>(..)
TestThresholdDemo ==
    /\ program.at = "main"
    /\ program.command.name = "Test"
    /\ Build([program EXCEPT !.only = Only(program.command.basic_only,
                                           program.command.rotation_only,
                                           program.command.access_only)],
             program.command.servers, "test", rng)
    /\ UNCHANGED <<package_id, obj, sealed, ret, files, output, threads, stdin>>

\* run_threshold_demo(servers, basic_only, rotation_only, access_only)
RunThresholdDemo ==
    /\ program.at = "run_threshold_demo"
    /\ IF program.servers < 2
       THEN /\ program' = Exit(program, "Err", NeedTwoServers)
            /\ UNCHANGED <<key_servers, rng, history>>
       ELSE Build(program, program.servers, "run_threshold_demo", rng)
    /\ UNCHANGED <<package_id, obj, sealed, ret, files, output, threads, stdin>>

\* run_all_demos(servers) up to the threshold demos: BasicDemo and
\* KeyManagementDemo run, then ThresholdDemo::new(servers)
RunAllDemos ==
    /\ program.at = "run_all_demos"
    /\ Build([program EXCEPT !.only = Only(FALSE, FALSE, FALSE)],
             program.servers, "run_all_demos",
             Advance(rng, DemoDraws("basic") + DemoDraws("keys")))
    /\ UNCHANGED <<package_id, obj, sealed, ret, files, output, threads, stdin>>

\* ThresholdDemo::run_all_demos, one turn of
\* `for threshold in 2..=min(3, self.key_servers.len() as u8)`, or its end
ThresholdLoop ==
    /\ program.at = "ThresholdDemo::run_all_demos"
    /\ IF program.threshold <= min(3, Len(key_servers) % U8)
       THEN LET run == demo_threshold_encryption(key_servers,
                                                 program.threshold, rng)
            IN /\ history' = Append(history,
                      Logged("demo_threshold_encryption", program.threshold, run))
               /\ rng' = Advance(rng, run.draws)
               /\ program' = IF run.outcome = "Ok"
                             THEN [program EXCEPT !.threshold = @ + 1]
                             ELSE Exit(program, run.outcome, run.error)
       ELSE /\ program' = [program EXCEPT
                              !.at = "ThresholdDemo::demo_server_rotation"]
            /\ UNCHANGED <<history, rng>>
    /\ UNCHANGED <<key_servers, package_id, obj, sealed, ret, files, output,
                   threads, stdin>>

\* demo.demo_threshold_encryption(threshold), called on its own
DemoThresholdEncryption ==
    /\ program.at = "ThresholdDemo::demo_threshold_encryption"
    /\ LET run == demo_threshold_encryption(key_servers, program.threshold, rng)
       IN /\ history' = Append(history,
                 Logged("demo_threshold_encryption", program.threshold, run))
          /\ rng' = Advance(rng, run.draws)
          /\ program' = AfterDemo(program, run)
    /\ UNCHANGED <<key_servers, package_id, obj, sealed, ret, files, output,
                   threads, stdin>>

\* demo.demo_server_rotation(), on its own or within run_all_demos
DemoServerRotation ==
    /\ program.at = "ThresholdDemo::demo_server_rotation"
    /\ LET run == demo_server_rotation(key_servers, rng)
       IN /\ history' = Append(history, Logged("demo_server_rotation", 2, run))
          /\ rng' = Advance(rng, run.draws)
          /\ program' =
                IF run.outcome = "Ok"
                     /\ program.only = "ThresholdDemo::run_all_demos"
                THEN [program EXCEPT !.at = "ThresholdDemo::demo_access_patterns"]
                ELSE AfterDemo(program, run)
    /\ UNCHANGED <<key_servers, package_id, obj, sealed, ret, files, output,
                   threads, stdin>>

\* demo.demo_access_patterns(), on its own or at the end of run_all_demos
DemoAccessPatterns ==
    /\ program.at = "ThresholdDemo::demo_access_patterns"
    /\ LET run == demo_access_patterns(key_servers, 1, rng, <<>>, 0)
       IN /\ history' = Append(history, Logged("demo_access_patterns", 2, run))
          /\ rng' = Advance(rng, run.draws)
          /\ program' = AfterDemo(program, run)
    /\ UNCHANGED <<key_servers, package_id, obj, sealed, ret, files, output,
                   threads, stdin>>

\* FileDemo::new()?.run_all_demos()?: Ok, its directory removed at the end,
\* or the error of the file system, met in new (create_dir_all) or after it
FileDemoRuns ==
    /\ program.at = "file_demo"
    /\ \/ /\ rng' = Advance(rng, DemoDraws("files"))
          /\ program' = Returned(program)
       \/ \E draws \in {0, FileServers} :
             /\ rng' = Advance(rng, draws)
             /\ program' = Exit(program, "Err", "Io")
    /\ UNCHANGED <<key_servers, package_id, obj, sealed, ret, files, output,
                   history, threads, stdin>>

\* the head of the loop of run_interactive_mode: the menu is printed and a
\* line is read
ReadChoice ==
    /\ program.at = "menu"
    /\ LET read == read_line(stdin)
       IN /\ stdin' = read.rest
          /\ program' = IF read.ok
                        THEN [program EXCEPT !.at = "chosen",
                                             !.choice = trim(read.line)]
                        ELSE Exit(program, "Err", "InvalidData")
    /\ UNCHANGED <<key_servers, package_id, rng, obj, sealed, ret, files,
                   output, history, threads>>

\* match input.trim() { "1" => .., .., "6" => break, _ => .. }
Choose ==
    /\ program.at = "chosen"
    /\ LET read == read_line(stdin)
           servers == parse_or(trim(read.line), 3)
           asked == [program EXCEPT !.only = Only(FALSE, FALSE, FALSE),
                                    !.threshold = 2]
       IN IF program.choice \in {<<"1">>, <<"2">>}
          THEN /\ rng' = Advance(rng, DemoDraws(IF program.choice = <<"1">>
                                                THEN "basic" ELSE "keys"))
               /\ program' = [program EXCEPT
                     !.at = "menu",
                     !.ran = IF program.choice = <<"1">> THEN "basic" ELSE "keys"]
               /\ UNCHANGED stdin
          ELSE IF program.choice \in {<<"3">>, <<"5">>}
          THEN /\ stdin' = read.rest
               /\ program' =
                     IF ~read.ok THEN Exit(program, "Err", "InvalidData")
                     ELSE IF program.choice = <<"3">>
                     THEN [asked EXCEPT
                              !.at = "run_threshold_demo", !.ran = "threshold",
                              !.servers = IF servers < 2 THEN 3 ELSE servers]
                     ELSE [asked EXCEPT
                              !.at = "run_all_demos", !.ran = "all",
                              !.servers = IF servers < 2 THEN 2 ELSE servers]
               /\ UNCHANGED rng
          ELSE /\ program' =
                     IF program.choice = <<"4">>
                     THEN [program EXCEPT !.at = "file_demo", !.ran = "files",
                                          !.entry = "run_file_demo"]
                     ELSE IF program.choice = <<"6">> THEN Exit(program, "Ok", "")
                     ELSE [program EXCEPT !.at = "menu", !.ran = "none"]
               /\ UNCHANGED <<rng, stdin>>
    /\ UNCHANGED <<key_servers, package_id, obj, sealed, ret, files, output,
                   history, threads>>

MainNext ==
    \/ Main
    \/ TestThresholdDemo
    \/ RunThresholdDemo
    \/ RunAllDemos
    \/ ThresholdLoop
    \/ DemoThresholdEncryption
    \/ DemoServerRotation
    \/ DemoAccessPatterns
    \/ FileDemoRuns
    \/ ReadChoice
    \/ Choose

\* the loop of the interactive mode goes on when it can: read_line does not
\* wait at the end of the input, it returns at once, and the match that
\* follows it is plain computation
MainSpec ==
    MainInit /\ [][MainNext]_vars /\ WF_vars(ReadChoice) /\ WF_vars(Choose)

-----------------------------------------------------------------------------
(* Properties of main.rs and of the ThresholdDemo runs *)

\* C22: server-count guard on every entry point. On every path of the
\* program that builds a ThresholdDemo from a server count given by the
\* user (the Threshold command, the All command, the choices 3 and 5 of the
\* interactive mode) the demo has at least 2 key servers, and when the
\* program fails with 'Need at least 2 key servers for threshold
\* encryption' no key server has been created.
ServerCountGuard ==
    /\ (program.built /\ program.entry \in {"run_threshold_demo", "run_all_demos"})
          => Len(key_servers) >= 2
    /\ program.error = NeedTwoServers
          => (program.result = "Err" /\ ~program.built /\ key_servers = <<>>)

\* the thresholds demo_threshold_encryption was called with, in order
Exercised ==
    LET calls == SelectSeq(history,
                     LAMBDA e : e.method = "demo_threshold_encryption")
    IN [i \in 1..Len(calls) |-> calls[i].threshold]

\* ThresholdDemo::run_all_demos has gone through its last demo
RunAllDemosOver ==
    /\ program.built
    /\ program.only = "ThresholdDemo::run_all_demos"
    /\ history # <<>>
    /\ history[Len(history)].method = "demo_access_patterns"

\* C23: thresholds exercised by ThresholdDemo::run_all_demos. With n key
\* servers it has run demo_threshold_encryption once for each threshold t,
\* 2 <= t <= min(3, n), in increasing order, then the rotation and the
\* access-pattern demos; for every n >= 3, server counts of 256 and above
\* included, both thresholds 2 and 3 are exercised.
ThresholdsExercised ==
    RunAllDemosOver =>
        LET n == Len(key_servers)
        IN /\ Exercised = [i \in 1..(min(3, n) - 1) |-> i + 1]
           /\ Len(history) = Len(Exercised) + 2
           /\ history[Len(history) - 1].method = "demo_server_rotation"
           /\ n >= 3 => Exercised = <<2, 3>>

\* C24: no out-of-range server access. Whatever the server count and the
\* threshold, no demo has sliced or indexed key_servers beyond its length:
\* every test_decryption_with_servers was entered with num_servers <= n, the
\* rotation and access-pattern demos indexed servers that exist, and no
\* demo has panicked.
NoOutOfRangeAccess ==
    \A i \in 1..Len(history) :
        /\ history[i].outcome # "panic"
        /\ \A j \in 1..Len(history[i].accesses) :
              history[i].accesses[j] <= Len(key_servers)

\* demo_threshold_encryption has run with the threshold equal to the server
\* count: the tests with threshold and threshold - 1 servers, none with one more
NoOutOfRangeAccessWitness ==
    /\ program.command.name = "Test"
    /\ Len(history) = 1
    /\ history[1].method = "demo_threshold_encryption"
    /\ history[1].threshold = Len(key_servers)
    /\ history[1].threshold >= 2
    /\ history[1].outcome = "Ok"
    /\ history[1].accesses = <<Len(key_servers), Len(key_servers) - 1>>

\* the choices of the menu that select a demo or the exit
Recognised == {<<"1">>, <<"2">>, <<"3">>, <<"4">>, <<"5">>, <<"6">>}

\* what the interactive mode has done with the line it read last
InteractiveChoices ==
    program.command.name = "Interactive" =>
        /\ (program.result = "Ok" => program.choice = <<"6">>)
        /\ (program.at = "exit" /\ program.choice = <<"6">>
               => program.result = "Ok")
        /\ (program.result = "Err" => program.error # "")
        /\ (program.choice \notin Recognised /\ program.at # "chosen"
               => (program.at \in {"main", "menu", "exit"}
                     /\ (program.at = "menu" => program.ran = "none")))

\* C25: the interactive mode terminates on every finite input. It returns
\* Ok when it reads a line that trims to 6, Err as soon as a selected demo
\* or a read fails, shows the menu again without running a demo for any
\* other line it does not recognise, and does not keep looping once the
\* standard input is exhausted.
InteractiveTerminates ==
    /\ []InteractiveChoices
    /\ (program.command.name = "Interactive" /\ program.at = "menu"
          /\ stdin = <<>>) ~> (program.at = "exit")

-----------------------------------------------------------------------------
(* Two FileDemo instances on one machine: both work in the directory       *)
(* std::env::temp_dir().join("seal-demo")                                   *)

Instances == {1, 2}

\* self.temp_dir as an entry of the file system: the directory itself
TempDir == <<<<>>, "">>

\* fs::remove_dir_all(&self.temp_dir): the directory and all it holds
remove_dir_all(fs) == {}

\* FileDemo::encrypt_file(file_path, output_path) by an instance with these
\* key servers: what it returns and the file system after it
encrypt_file(fs, servers, file_path, output_path, r) ==
    IF ~FsExists(fs, file_path) \/ ~FsExists(fs, TempDir)
    THEN [ok |-> FALSE, files |-> fs]
    ELSE LET res == seal_encrypt(HomePackage, FileIdentity(file_name(file_path)),
                                 ObjectIds(servers), PublicKeys(servers),
                                 FileThreshold,
                                 [mode |-> "Aes256Gcm",
                                  data |-> FsRead(fs, file_path), aad |-> None],
                                 r)
         IN [ok |-> res.ok,
             files |-> IF res.ok
                       THEN KeyFileSaved(
                                FsWrite(fs, output_path, Serialize(res.object)),
                                output_path, res.key)
                       ELSE fs]

\* FileDemo::decrypt_file(encrypted_path, output_path)
decrypt_file(fs, servers, encrypted_path, output_path) ==
    IF ~FsExists(fs, encrypted_path) \/ ~FsExists(fs, TempDir)
    THEN [ok |-> FALSE, files |-> fs]
    ELSE LET encrypted_object == Deserialize(FsRead(fs, encrypted_path))
             res == seal_decrypt(encrypted_object,
                        UserSecretKeys(servers, FirstServers(FileThreshold),
                                       FullIdOf(encrypted_object)),
                        TRUE, PublicKeys(servers))
         IN [ok |-> res.status = "Success",
             files |-> IF res.status = "Success"
                       THEN FsWrite(fs, output_path, res.value) ELSE fs]

InstanceInit ==
    /\ threads = [k \in Instances |->
          [at |-> "start", key_servers |-> <<>>, rng |-> k - 1,
           wrote |-> {}, result |-> "running"]]
    /\ files = {}
    /\ key_servers = <<>>
    /\ package_id = HomePackage
    /\ rng = 0
    /\ obj = NoObject
    /\ sealed = NoSeal
    /\ ret = NoCall
    /\ output = {}
    /\ history = <<>>
    /\ program = NoProgram
    /\ stdin = <<>>

\* the instance goes on to `at` if the step was Ok; on an error (`?`)
\* run_all_demos returns it and the demo is about to be dropped
Proceed(k, ok, at, written, r) ==
    /\ threads' = [threads EXCEPT
          ![k].at = IF ok THEN at ELSE "returned",
          ![k].result = IF ok THEN @ ELSE "Err",
          ![k].wrote = IF ok THEN @ \cup written ELSE @,
          ![k].rng = r]
    /\ UNCHANGED <<key_servers, package_id, rng, obj, sealed, ret, output,
                   history, program, stdin>>

\* FileDemo::new(): fs::create_dir_all(&temp_dir) and three key pairs
InstanceNew(k) ==
    /\ threads[k].at = "start"
    /\ files' = files \cup {[name |-> TempDir, content |-> <<>>]}
    /\ threads' = [threads EXCEPT
          ![k].at = "new",
          ![k].key_servers = NewKeyServers(FileServers, threads[k].rng),
          ![k].rng = Advance(@, FileServers)]
    /\ UNCHANGED <<key_servers, package_id, rng, obj, sealed, ret, output,
                   history, program, stdin>>

\* create_sample_files: fs::write(&file_path, content)
InstanceWriteSample(k, name, content) ==
    /\ threads[k].at = "new"
    /\ files' = IF FsExists(files, TempDir)
                THEN FsWrite(files, SamplePath(name), content) ELSE files
    /\ Proceed(k, FsExists(files, TempDir), "sample", {SamplePath(name)},
               threads[k].rng)

\* demo_file_encryption: self.encrypt_file(file_path, &encrypted_path)?
InstanceEncrypt(k, name) ==
    /\ threads[k].at = "sample"
    /\ LET done == encrypt_file(files, threads[k].key_servers, SamplePath(name),
                                EncryptedPath(name), threads[k].rng)
       IN /\ files' = done.files
          /\ Proceed(k, done.ok, "encrypted",
                     {EncryptedPath(name),
                      with_extension(EncryptedPath(name), "key")},
                     Advance(threads[k].rng, FileThreshold + 1))

\* demo_file_encryption: self.decrypt_file(&encrypted_path, &decrypted_path)?
InstanceDecrypt(k, name) ==
    /\ threads[k].at = "encrypted"
    /\ LET done == decrypt_file(files, threads[k].key_servers,
                                EncryptedPath(name), DecryptedPath(name))
       IN /\ files' = done.files
          /\ Proceed(k, done.ok, "decrypted", {DecryptedPath(name)},
                     threads[k].rng)

\* demo_file_encryption: let original = fs::read(file_path)?;
\* let decrypted = fs::read(&decrypted_path)?; if original == decrypted {..}
\* else { bail!(..) }
InstanceVerify(k, name) ==
    /\ threads[k].at = "decrypted"
    /\ Proceed(k, /\ FsExists(files, SamplePath(name))
                  /\ FsExists(files, DecryptedPath(name))
                  /\ FsRead(files, SamplePath(name))
                        = FsRead(files, DecryptedPath(name)),
               "verified", {}, threads[k].rng)
    /\ UNCHANGED files

\* run_all_demos: fs::remove_dir_all(&self.temp_dir)?
InstanceCleanup(k) ==
    /\ threads[k].at = "verified"
    /\ files' = remove_dir_all(files)
    /\ threads' = [threads EXCEPT
          ![k].at = "returned",
          ![k].result = IF FsExists(files, TempDir) THEN "Ok" ELSE "Err",
          ![k].wrote = {}]
    /\ UNCHANGED <<key_servers, package_id, rng, obj, sealed, ret, output,
                   history, program, stdin>>

\* impl Drop for FileDemo: let _ = fs::remove_dir_all(&self.temp_dir)
InstanceDrop(k) ==
    /\ threads[k].at = "returned"
    /\ files' = remove_dir_all(files)
    /\ threads' = [threads EXCEPT ![k].at = "dropped", ![k].wrote = {}]
    /\ UNCHANGED <<key_servers, package_id, rng, obj, sealed, ret, output,
                   history, program, stdin>>

InstanceNext ==
    \/ \E k \in Instances : InstanceNew(k)
    \/ \E k \in Instances, name \in FileNames, content \in FileContents :
          InstanceWriteSample(k, name, content)
    \/ \E k \in Instances, name \in FileNames : InstanceEncrypt(k, name)
    \/ \E k \in Instances, name \in FileNames : InstanceDecrypt(k, name)
    \/ \E k \in Instances, name \in FileNames : InstanceVerify(k, name)
    \/ \E k \in Instances : InstanceCleanup(k)
    \/ \E k \in Instances : InstanceDrop(k)

InstanceSpec == InstanceInit /\ [][InstanceNext]_vars

\* C26: FileDemo instances do not interfere. Under any interleaving of two
\* instances, the files an instance has written under its temp_dir (sample,
\* encrypted, key and decrypted files) are present until the same instance
\* removes them in run_all_demos or in Drop: the cleanup or the Drop of one
\* never deletes what the other still has to read.
InstancesDoNotInterfere ==
    \A k \in Instances :
        \A path \in threads[k].wrote : FsExists(files, path)

====
